---- MODULE Spec2Model ----
(***************************************************************************)
(* The rule-based core of the banking dashboard: MLEngine's segmentation   *)
(* with its rule-based fallback (mlEngine, src/unnamed/part_002) and the   *)
(* closed-form generators of DataSeeder (src/src/services/dataSeeder.ts);  *)
(* and the handlers of its pages, from one await to the next: Risk         *)
(* Assessment, Customer Segmentation (src/unnamed/part_001), Customer      *)
(* Profiles and AI Insights, over the tables of the hosted database.       *)
(*                                                                         *)
(* Units.  JavaScript numbers are modelled exactly as integers or as       *)
(* fractions [num, den]:                                                   *)
(*   - riskScore of a CustomerData record is held in thousandths           *)
(*     (0.7 is 700), so that the comparison riskScore > 0.7 is exact;      *)
(*   - a mean  sum / length  is the fraction [num |-> sum, den |-> length];*)
(*     a zero den is the division by zero (NaN in JavaScript);             *)
(*   - Math.random() is the fraction k / RandomSteps, k in 0..RandomSteps-1*)
(*     (the draw is in [0,1), never 1).                                    *)
(***************************************************************************)
EXTENDS Integers, Sequences, FiniteSets, TLC

VARIABLES
    op,          \* the MLEngine operation that is invoked
    customers,   \* its argument: the customer list (a one-element list for
                 \* the per-customer operations)
    pc,          \* "ready" | "awaitAI" | "returned" | "thrown"
    aiCalls,     \* calls made to the hosted AI endpoint
    prompt,      \* the customer summaries serialised into the prompt
    aiOutcome,   \* "none" | "resolved" | "threw"
    aiReply,     \* what the endpoint resolved with
    fallbackUsed,\* fallbackSegmentation has been entered
    result,      \* the value the operation returned
    fnName,      \* the DataSeeder generator that was applied ("none": not yet)
    fnArgs,      \* its arguments
    fnRand,      \* the numerator k of its Math.random() draw
    fnOut,       \* its return value
    page,            \* the mounted page ("none": the operations run alone)
    dbCustomers,     \* the customers table of the hosted database
    dbAssessments,   \* its riskAssessments table, in creation order
    pageCustomers,   \* RiskAssessment's state `customers`
    pageAssessments, \* RiskAssessment's state `assessments`
    loading,         \* RiskAssessment's state `loading`
    analyzing,       \* RiskAssessment's state `analyzing`
    run,             \* the runRiskAnalysis in progress: its position, the
                     \* `customers` it closed over, its loop and its locals
    loads,           \* the loadData calls in flight, in the order issued
    upd,             \* the updateAssessmentStatus in progress
    clock,           \* Date.now(), in days
    faults,          \* remote calls that may still fail or answer unusually
    clicks,          \* button presses so far
    dbSegments,      \* the customerSegments table, in creation order
    dbAssignments,   \* the customerSegmentAssignments table, in creation order
    dbInsights,      \* the aiInsights table, in creation order
    pageSegments,    \* CustomerSegmentation's state `segments`
    pageInsights,    \* AIInsights' state `insights`
    mlResults,       \* CustomerSegmentation's state `mlResults`
    generating,      \* the state `generating` (`seeding` on CustomerProfiles)
    act,             \* the handler in progress on these pages: its name, its
                     \* position and its locals
    atStart,         \* the data lists of the page when that handler started
    ended,           \* the last handler that ended and how: "completed", or
                     \* "failed" when a catch block that only logs has run
    escaped,         \* the page handlers an exception has escaped from
    insightsLoading, \* CustomerProfiles' state `insightsLoading`
    customerInsights,\* CustomerProfiles' state `customerInsights`
    insightsCall,    \* the generateCustomerInsights in progress: its position
                     \* and the customer it was called with
    seed             \* the seedCustomerData in progress: its position, its
                     \* arguments, its locals and the createMany calls that
                     \* have returned

profileVars == <<insightsLoading, customerInsights, insightsCall>>

appVars == <<dbSegments, dbAssignments, dbInsights, pageSegments, pageInsights,
             mlResults, generating, act, atStart, ended, profileVars, seed>>

pageVars == <<page, dbCustomers, dbAssessments, pageCustomers, pageAssessments,
              loading, analyzing, run, loads, upd, clock, clicks, appVars, escaped>>

riskVars == <<pageVars, faults>>

vars == <<op, customers, pc, aiCalls, prompt, aiOutcome, aiReply, fallbackUsed, result,
          fnName, fnArgs, fnRand, fnOut, riskVars>>

mlVars == <<op, customers, pc, aiCalls, prompt, aiOutcome, aiReply, fallbackUsed, result>>
fnVars == <<fnName, fnArgs, fnRand, fnOut>>

(***************************************************************************)
(* Bounds of the model.                                                    *)
(***************************************************************************)
MaxCustomers == 2     \* every customer list up to this length is an input
MaxStride == 4        \* longer inputs: profile of customer i is (a*i + b) mod
                      \* the number of profiles, a and b in 0..MaxStride
RandomSteps == 8      \* Math.random() draws k / RandomSteps
BracketSteps == 20    \* the draw that picks the income bracket is b / BracketSteps:
                      \* twentieths land on both sides of every bracket limit

(***************************************************************************)
(* Program constants.                                                      *)
(***************************************************************************)
PromptLimit == 50           \* customerSummary.slice(0, 50)
MediumRiskThreshold == 400  \* riskScore > 0.4, in thousandths
HighRiskThreshold == 700    \* c.riskScore > 0.7, in thousandths
YoungAccountAge == 36       \* c.accountAge < 36
YoungIncomeMin == 40000     \* c.annualIncome > 40000
YoungIncomeMax == 100000    \* c.annualIncome < 100000

Min(a, b) == IF a < b THEN a ELSE b
Max(a, b) == IF a > b THEN a ELSE b

(***************************************************************************)
(* Inputs: CustomerData records.  The field values sit on and next to the  *)
(* thresholds of the fallback rules; balances repeat, so ties happen.      *)
(***************************************************************************)
BalanceVals == <<5000, 9000>>
IncomeVals == <<40000, 40001, 100000>>
AgeVals == <<35, 36>>
RiskVals == <<700, 701>>
ClvVals == <<0, 1200, 300>>

NumProfiles == Len(BalanceVals) * Len(IncomeVals) * Len(AgeVals) * Len(RiskVals)

\* The k-th combination of field values, k in 0..NumProfiles-1, for the
\* customer whose id is `id`.
CustomerOf(id, k) ==
    [ id |-> id,
      accountBalance |-> BalanceVals[(k % 2) + 1],
      annualIncome |-> IncomeVals[((k \div 2) % 3) + 1],
      accountAge |-> AgeVals[((k \div 6) % 2) + 1],
      riskScore |-> RiskVals[((k \div 12) % 2) + 1],
      customerLifetimeValue |-> ClvVals[(k % 3) + 1] ]

\* Ids are unique within a list, as the rows of the customers collection are:
\* the customer at position i has id i.
SmallLists ==
    UNION { { [i \in 1..n |-> CustomerOf(i, f[i])] :
                f \in [1..n -> 0..(NumProfiles - 1)] } : n \in 0..MaxCustomers }

PatternLens == {5, 6, 10, 11, PromptLimit + 1}

PatternLists ==
    { [i \in 1..n |-> CustomerOf(i, (a * i + b) % NumProfiles)] :
        n \in PatternLens, a \in 0..MaxStride, b \in 0..MaxStride }

InputLists == SmallLists \cup PatternLists

\* Risk scores (thousandths) on both sides of the default bucket limits
RiskScoreInputs == {0, 400, 401, 700, 701, 1000}

(***************************************************************************)
(* MLEngine.fallbackSegmentation                                           *)
(***************************************************************************)

\* Array.prototype.map(c => c.id)
ids(s) == [i \in 1..Len(s) |-> s[i].id]

\* Array.prototype.slice(0, end)
slice(s, end) == SubSeq(s, 1, Min(end, Len(s)))

\* Array.prototype.reduce((sum, c) => sum + c.<field>, 0)
reduceSum(s, field) ==
    LET sumTo[i \in 0..Len(s)] ==
            IF i = 0 THEN 0 ELSE sumTo[i - 1] + s[i][field]
    IN  sumTo[Len(s)]

\* reduce(...) / members.length
mean(members, field) ==
    [num |-> reduceSum(members, field), den |-> Len(members)]

\* The comparator (a, b) => b.accountBalance - a.accountBalance: negative when
\* a goes before b, zero when the sort must keep their order.
compareBalance(a, b) == b.accountBalance - a.accountBalance

\* Array.prototype.sort is stable (ECMAScript 2019): s[j] ends up before s[i]
\* when the comparator puts it first, or leaves the two equal and j < i.
\* before(s, j, i) is that order; the sorted array holds at position p the
\* element that has p - 1 elements before it.
before(s, j, i) ==
    \/ compareBalance(s[j], s[i]) < 0
    \/ compareBalance(s[j], s[i]) = 0 /\ j < i

sortStable(s) ==
    LET n == Len(s)
        rank == [i \in 1..n |-> 1 + Cardinality({j \in 1..n : before(s, j, i)})]
    IN  [p \in 1..n |-> s[CHOOSE i \in 1..n : rank[i] = p]]

\* A sort that breaks the order of equal balances.
beforeUnstable(s, j, i) ==
    \/ compareBalance(s[j], s[i]) < 0
    \/ compareBalance(s[j], s[i]) = 0 /\ j > i

sortUnstable(s) ==
    LET n == Len(s)
        rank == [i \in 1..n |-> 1 + Cardinality({j \in 1..n : beforeUnstable(s, j, i)})]
    IN  [p \in 1..n |-> s[CHOOSE i \in 1..n : rank[i] = p]]

sortedByBalanceUnstable(cs) == sortUnstable(cs)

\* const sortedByBalance = [...customers].sort(...)
sortedByBalance(cs) == sortStable(cs)

highValueCountFloor(n) == n \div 5

\* Math.ceil(customers.length * 0.2).  The double 0.2 is (2^54 + 1)/(5 * 2^54),
\* so n * 0.2 is n/5 + n/(5 * 2^54) before rounding: for n a multiple of 5 the
\* excess is below half an ulp of n/5 and the product rounds to n/5 exactly;
\* otherwise the product lies strictly between two integers.  Either way the
\* ceiling is that of n/5.
highValueCount(n) == (n + 4) \div 5

\* sortedByBalance.slice(0, highValueCount)
highValueCustomers(cs) == slice(sortedByBalance(cs), highValueCount(Len(cs)))

\* c.accountAge < 36 && c.annualIncome > 40000 && c.annualIncome < 100000
isYoungProfessional(c) ==
    /\ c.accountAge < YoungAccountAge
    /\ c.annualIncome > YoungIncomeMin
    /\ c.annualIncome < YoungIncomeMax

\* customers.filter(c => ...): the elements that pass, in their order
youngProfessionals(cs) == SelectSeq(cs, isYoungProfessional)

isHighRiskInclusive(c) == c.riskScore >= HighRiskThreshold

isHighRisk(c) == c.riskScore > HighRiskThreshold

\* customers.filter(c => c.riskScore > 0.7)
highRiskCustomers(cs) == SelectSeq(cs, isHighRisk)

\* Characteristics whose means are taken over the whole input.
characteristicsOverAll(members, all) ==
    [ avgBalance |-> mean(all, "accountBalance"),
      avgIncome |-> mean(all, "annualIncome"),
      avgRiskScore |-> mean(all, "riskScore"),
      avgCLV |-> mean(all, "customerLifetimeValue"),
      size |-> Len(members) ]

\* The characteristics literal of a pushed segment.  `all` is the input list,
\* which the code does not read here.
characteristics(members, all) ==
    [ avgBalance |-> mean(members, "accountBalance"),
      avgIncome |-> mean(members, "annualIncome"),
      avgRiskScore |-> mean(members, "riskScore"),
      avgCLV |-> mean(members, "customerLifetimeValue"),
      size |-> Len(members) ]

\* The object pushed for a segment (the three pushes have the same shape).
segment(prefix, name, members, all) ==
    [ segmentId |-> prefix,
      segmentName |-> name,
      customers |-> ids(members),
      characteristics |-> characteristics(members, all) ]

\* segments.push({ ... 'High Value Customers' ... }), unconditional
highValueSegments(cs) ==
    << segment("seg_high_value", "High Value Customers", highValueCustomers(cs), cs) >>

youngProfessionalSegmentsUnguarded(cs) ==
    << segment("seg_young_prof", "Young Professionals", youngProfessionals(cs), cs) >>

\* if (youngProfessionals.length > 0) segments.push({ ... })
youngProfessionalSegments(cs) ==
    IF Len(youngProfessionals(cs)) > 0
    THEN << segment("seg_young_prof", "Young Professionals", youngProfessionals(cs), cs) >>
    ELSE <<>>

\* if (highRiskCustomers.length > 0) segments.push({ ... })
highRiskSegments(cs) ==
    IF Len(highRiskCustomers(cs)) > 0
    THEN << segment("seg_high_risk", "High Risk Customers", highRiskCustomers(cs), cs) >>
    ELSE <<>>

fallbackSegmentation(cs) ==
    highValueSegments(cs) \o youngProfessionalSegments(cs) \o highRiskSegments(cs)

(***************************************************************************)
(* The MLEngine operations around their single AI call.  The operation     *)
(* runs up to its await, the endpoint resolves or throws, and the rest of  *)
(* the try block or the catch block runs to the return.                    *)
(***************************************************************************)
SegmentationOp == "performCustomerSegmentation"
InsightsOp == "generateCustomerInsights"
RecommendationsOp == "generateProductRecommendations"
ClvOp == "predictCustomerLifetimeValue"
RiskOp == "assessCustomerRisk"

\* What an operation hands to its caller: a returned value (kind "return") or
\* an exception (kind "throw").
return(v) == [kind |-> "return", value |-> v]

\* The endpoint has not resolved.
NoReply == [resolved |-> FALSE]

\* The objects the endpoint may resolve with for a segmentation prompt: no
\* segments property, an empty segments array, or segments over the customers
\* it was shown.
SegmentationObjects(shown) ==
    { [hasSegments |-> FALSE, segments |-> <<>>],
      [hasSegments |-> TRUE, segments |-> <<>>],
      [hasSegments |-> TRUE,
       segments |-> << [ segmentName |-> "Active Traders",
                         customerIds |-> ids(shown),
                         characteristics |-> characteristics(shown, shown) ] >>] }

\* if (object.segments) { for (const segment of object.segments) results.push(...) }
\* return results
segmentationResults(object) ==
    return(IF object.hasSegments
           THEN [i \in 1..Len(object.segments) |->
                    [ segmentId |-> "seg_ai",
                      segmentName |-> object.segments[i].segmentName,
                      customers |-> object.segments[i].customerIds,
                      characteristics |-> object.segments[i].characteristics ]]
           ELSE <<>>)

segmentationCatchShownOnly(cs) == return(fallbackSegmentation(slice(cs, PromptLimit)))

\* catch (error) { return this.fallbackSegmentation(customers) }
segmentationCatch(cs) == return(fallbackSegmentation(cs))

\* The objects the endpoint may resolve with for a per-customer prompt: the
\* list property absent, or a list of items.
ListObjects ==
    { [hasList |-> FALSE, list |-> <<>>],
      [hasList |-> TRUE, list |-> <<>>],
      [hasList |-> TRUE, list |-> <<"item1", "item2">>] }

\* return object.insights || []      (an array is truthy, also when empty)
\* return object.recommendations || []
listResults(object) == return(IF object.hasList THEN object.list ELSE <<>>)

\* catch (error) { return [] }
listCatch == return(<<>>)

\* What parseFloat(text.replace(/[^0-9.-]/g, '')) makes of the texts the
\* endpoint may resolve with: not a number, or a number.
ClvReplies ==
    { [isNaN |-> TRUE, clv |-> 0],
      [isNaN |-> FALSE, clv |-> 0],
      [isNaN |-> FALSE, clv |-> 25000] }

\* return isNaN(clv) ? customerData.customerLifetimeValue : clv
clvResults(reply, c) ==
    return(IF reply.isNaN THEN c.customerLifetimeValue ELSE reply.clv)

\* catch (error) { return customerData.customerLifetimeValue }
clvCatch(c) == return(c.customerLifetimeValue)

\* The objects the endpoint may resolve with for a risk prompt.  riskScore is
\* in thousandths and may be missing, zero or outside [0, 1]; riskLevel,
\* factors and recommendations are missing together or present together.
RiskObjects ==
    [ hasRiskScore : {TRUE}, riskScore : {-200, 0, 650, 1500}, described : BOOLEAN ]
        \cup [ hasRiskScore : {FALSE}, riskScore : {0}, described : BOOLEAN ]

\* The object the endpoint resolves with when it behaves as usual
UsualRiskObject == [hasRiskScore |-> TRUE, riskScore |-> 650, described |-> TRUE]

\* Alone, an operation meets every answer of the endpoint; under a page, the
\* unusual answers (and the failures) are limited by `faults`.
EndpointMayDeviate == page = "none" \/ faults > 0

\* An unusual answer under a page uses up one of `faults`.
charge(unusual) == faults' = IF page # "none" /\ unusual THEN faults - 1 ELSE faults

\* Math.max(0, Math.min(1, x)), x in thousandths
clampRisk(x) == Max(0, Min(1000, x))

\* return { riskScore: Math.max(0, Math.min(1, object.riskScore || customerData.riskScore)),
\*          riskLevel: object.riskLevel || 'medium',
\*          factors: object.factors || [], recommendations: object.recommendations || [] }
\* (a riskScore of 0 is falsy, like a missing one)
assessRiskResults(object, c) ==
    return([ riskScore |-> clampRisk(IF object.hasRiskScore /\ object.riskScore # 0
                                     THEN object.riskScore
                                     ELSE c.riskScore),
             riskLevel |-> IF object.described THEN "critical" ELSE "medium",
             factors |-> IF object.described THEN <<"factor1", "factor2">> ELSE <<>>,
             recommendations |-> IF object.described THEN <<"recommendation1">> ELSE <<>> ])

\* The buckets with their lower limits included
defaultRiskLevelInclusive(riskScore) ==
    IF riskScore >= HighRiskThreshold THEN "high"
    ELSE IF riskScore >= MediumRiskThreshold THEN "medium"
    ELSE "low"

\* riskScore > 0.7 ? 'high' : riskScore > 0.4 ? 'medium' : 'low'
defaultRiskLevel(riskScore) ==
    IF riskScore > HighRiskThreshold THEN "high"
    ELSE IF riskScore > MediumRiskThreshold THEN "medium"
    ELSE "low"

\* catch (error) { return { riskScore: customerData.riskScore, riskLevel: ...,
\*     factors: ['Unable to assess risk factors'],
\*     recommendations: ['Manual review recommended'] } }
assessRiskCatch(c) ==
    return([ riskScore |-> c.riskScore,
             riskLevel |-> defaultRiskLevel(c.riskScore),
             factors |-> <<"Unable to assess risk factors">>,
             recommendations |-> <<"Manual review recommended">> ])

\* The catch block of operation o.
mlCatch(o, cs) ==
    IF o = SegmentationOp THEN segmentationCatch(cs)
    ELSE IF o = RiskOp THEN assessRiskCatch(cs[1])
    ELSE IF o = ClvOp THEN clvCatch(cs[1])
    ELSE listCatch

earlyReturnMissing(cs) == FALSE

\* if (customers.length === 0) return []
earlyReturn(cs) == Len(cs) = 0

MLInit ==
    /\ \/ op = SegmentationOp /\ customers \in InputLists
       \/ op \in {InsightsOp, RecommendationsOp, ClvOp}
          /\ customers \in { <<CustomerOf(1, k)>> : k \in 0..(NumProfiles - 1) }
       \/ op = RiskOp
          /\ customers \in { <<[CustomerOf(1, 0) EXCEPT !.riskScore = r]>> :
                                r \in RiskScoreInputs }
    /\ pc = "ready"
    /\ aiCalls = 0
    /\ prompt = <<>>
    /\ aiOutcome = "none"
    /\ aiReply = NoReply
    /\ fallbackUsed = FALSE
    /\ result = <<>>

\* No explicit arguments: the generators run inside seedCustomerData's loop.
NoArgs ==
    [income |-> 0, creditScore |-> 0, balance |-> 0, transactionCount |-> 0,
     accountAge |-> 0]

\* runRiskAnalysis's locals before the first call returns
NoAnalysis == [riskScore |-> 0, riskLevel |-> "", factors |-> <<>>, recommendations |-> <<>>]

NoRun ==
    [ pc |-> "idle", customers |-> <<>>, highRiskCustomers |-> <<>>, k |-> 0,
      riskAnalysis |-> NoAnalysis, assessedDate |-> 0,
      sent |-> <<>>, skipped |-> <<>>, aiCalls |-> <<>> ]

NoUpdate == [pc |-> "idle", assessmentId |-> 0, status |-> ""]

\* No handler of CustomerSegmentation, CustomerProfiles or AIInsights runs.
NoAct == [name |-> "none", pc |-> "idle", results |-> <<>>, k |-> 0, j |-> 0]

NoEnd == [name |-> "none", outcome |-> "none"]

NoLists == [customers |-> <<>>, segments |-> <<>>, insights |-> <<>>, mlResults |-> <<>>]

\* The tables these pages write are empty and none of them is mounted.
\* No seedCustomerData is in progress
NoSeed ==
    [ pc |-> "idle", userId |-> "", count |-> 0, i |-> 0,
      customers |-> <<>>, transactions |-> <<>>, interactions |-> <<>>,
      transactionBatches |-> <<>>, k |-> 0, calls |-> <<>> ]

\* No generateCustomerInsights is in progress
NoInsightsCall == [pc |-> "idle", customer |-> <<>>]

AppIdle ==
    /\ dbSegments = <<>>
    /\ dbAssignments = <<>>
    /\ dbInsights = <<>>
    /\ pageSegments = <<>>
    /\ pageInsights = <<>>
    /\ mlResults = <<>>
    /\ generating = FALSE
    /\ act = NoAct
    /\ atStart = NoLists
    /\ ended = NoEnd
    /\ escaped = {}
    /\ insightsLoading = FALSE
    /\ customerInsights = <<>>
    /\ insightsCall = NoInsightsCall
    /\ seed = NoSeed

\* No page is mounted.
RiskIdle ==
    /\ AppIdle
    /\ page = "none"
    /\ dbCustomers = <<>>
    /\ dbAssessments = <<>>
    /\ pageCustomers = <<>>
    /\ pageAssessments = <<>>
    /\ loading = TRUE
    /\ analyzing = FALSE
    /\ run = NoRun
    /\ loads = <<>>
    /\ upd = NoUpdate
    /\ clock = 0
    /\ faults = 0
    /\ clicks = 0

FnIdle ==
    /\ fnName = "none"
    /\ fnArgs = NoArgs
    /\ fnRand = 0
    /\ fnOut = 0

\* performCustomerSegmentation from its entry to the await of generateObject
PerformCustomerSegmentation ==
    /\ op = SegmentationOp
    /\ pc = "ready"
    /\ IF earlyReturn(customers)
       THEN /\ pc' = "returned"
            /\ result' = <<>>
            /\ UNCHANGED <<aiCalls, prompt>>
       ELSE /\ pc' = "awaitAI"
            /\ aiCalls' = aiCalls + 1
            /\ prompt' = slice(customers, PromptLimit)
            /\ UNCHANGED result
    /\ UNCHANGED <<op, customers, aiOutcome, aiReply, fallbackUsed, fnVars, riskVars>>

\* generateCustomerInsights / generateProductRecommendations /
\* predictCustomerLifetimeValue / assessCustomerRisk up to the await: each
\* starts with the call of generateObject (generateText)
GenerateList ==
    /\ op \in {InsightsOp, RecommendationsOp, ClvOp, RiskOp}
    /\ pc = "ready"
    /\ pc' = "awaitAI"
    /\ aiCalls' = aiCalls + 1
    /\ prompt' = customers
    /\ UNCHANGED <<op, customers, aiOutcome, aiReply, fallbackUsed, result, fnVars, riskVars>>

\* A catch block that calls the endpoint again
finishRetry(r) ==
    /\ pc' = IF aiOutcome' = "threw" THEN "ready" ELSE "returned"
    /\ result' = r.value

finish(r) ==
    /\ pc' = IF r.kind = "return" THEN "returned" ELSE "thrown"
    /\ result' = r.value

\* generateObject resolves: the rest of the try block runs
AIResolves ==
    /\ pc = "awaitAI"
    /\ aiOutcome' = "resolved"
    /\ CASE op = SegmentationOp ->
               /\ \E object \in SegmentationObjects(prompt) :
                     finish(segmentationResults(object)) /\ aiReply' = object
               /\ charge(FALSE)
         [] op = RiskOp ->
               \E object \in (IF EndpointMayDeviate THEN RiskObjects ELSE {UsualRiskObject}) :
                  /\ finish(assessRiskResults(object, customers[1]))
                  /\ aiReply' = object
                  /\ charge(object # UsualRiskObject)
         [] op = ClvOp ->
               /\ \E reply \in ClvReplies :
                     finish(clvResults(reply, customers[1])) /\ aiReply' = reply
               /\ charge(FALSE)
         [] OTHER ->
               /\ \E object \in ListObjects :
                     finish(listResults(object)) /\ aiReply' = object
               /\ charge(FALSE)
    /\ UNCHANGED <<op, customers, aiCalls, prompt, fallbackUsed, fnVars, pageVars>>

\* generateObject rejects: the catch block runs
AIThrows ==
    /\ pc = "awaitAI"
    /\ EndpointMayDeviate
    /\ aiOutcome' = "threw"
    /\ fallbackUsed' = (op = SegmentationOp)
    /\ finish(mlCatch(op, customers))
    /\ charge(TRUE)
    /\ UNCHANGED <<op, customers, aiCalls, prompt, aiReply, fnVars, pageVars>>

MLNext == PerformCustomerSegmentation \/ GenerateList \/ AIResolves \/ AIThrows

Init == MLInit /\ FnIdle /\ RiskIdle

Next == MLNext

Spec == Init /\ [][Next]_vars

(***************************************************************************)
(* Properties of fallbackSegmentation and performCustomerSegmentation.     *)
(* They are stated over the returned value and the input list, with the    *)
(* rules written out again rather than through the operators above.        *)
(***************************************************************************)
N == Len(customers)

\* performCustomerSegmentation has returned what fallbackSegmentation built
FallbackReturned == op = SegmentationOp /\ pc = "returned" /\ fallbackUsed

InputIds == { customers[i].id : i \in 1..N }
PosOf(id) == CHOOSE i \in 1..N : customers[i].id = id
IdSet(seg) == { seg.customers[i] : i \in 1..Len(seg.customers) }
Named(name) == { i \in 1..Len(result) : result[i].segmentName = name }

\* The member ids are distinct and appear in the order of the input list.
InInputOrder(seg) ==
    \A a, b \in 1..Len(seg.customers) :
        a < b => PosOf(seg.customers[a]) < PosOf(seg.customers[b])

\* The sum of a field over the customers a list of ids names.
SumOver(idseq, field) ==
    LET upTo[i \in 0..Len(idseq)] ==
            IF i = 0 THEN 0 ELSE upTo[i - 1] + customers[PosOf(idseq[i])][field]
    IN  upTo[Len(idseq)]

\* C1: for a non-empty list of n customers the High Value Customers segment
\* has exactly ceil(0.2 * n) members, all distinct, and no customer outside it
\* has a strictly greater accountBalance than a customer inside it.
C1_HighValueIsTopFifth ==
    FallbackReturned =>
        LET hv == result[1]
            k == Len(hv.customers)
        IN  /\ hv.segmentName = "High Value Customers"
            /\ 5 * k >= N /\ 5 * (k - 1) < N
            /\ Cardinality(IdSet(hv)) = k
            /\ IdSet(hv) \subseteq InputIds
            /\ \A i, j \in 1..N :
                  (customers[i].id \notin IdSet(hv) /\ customers[j].id \in IdSet(hv))
                    => customers[i].accountBalance <= customers[j].accountBalance

\* C1 witness: eleven customers, three members, some customer left out.
C1_Witness ==
    /\ FallbackReturned
    /\ N = 11
    /\ Len(result[1].customers) = 3
    /\ \E i \in 1..N : customers[i].id \notin IdSet(result[1])
                       /\ customers[i].accountBalance < 9000

\* C2 (as claimed): the Young Professionals segment holds exactly the input
\* customers with accountAge < 36 and 40,000 <= annualIncome < 100,000, in
\* input order; a customer with annualIncome exactly 40,000 is a member.
C2_YoungProfessionalsFrom40000 ==
    FallbackReturned =>
        LET claimed == { i \in 1..N : /\ customers[i].accountAge < 36
                                      /\ 40000 <= customers[i].annualIncome
                                      /\ customers[i].annualIncome < 100000 }
        IN  claimed # {} =>
              \E s \in Named("Young Professionals") :
                 /\ IdSet(result[s]) = { customers[i].id : i \in claimed }
                 /\ InInputOrder(result[s])

\* C3: the High Risk Customers segment holds exactly the input customers with
\* riskScore > 0.7, in input order; one with riskScore exactly 0.7 is left out.
C3_HighRiskAbovePointSeven ==
    FallbackReturned =>
        LET risky == { i \in 1..N : customers[i].riskScore > 700 }
        IN  /\ \A s \in Named("High Risk Customers") :
                 /\ IdSet(result[s]) = { customers[i].id : i \in risky }
                 /\ Len(result[s].customers) = Cardinality(risky)
                 /\ InInputOrder(result[s])
            /\ risky # {} => Named("High Risk Customers") # {}

\* C3 witness: a customer at exactly 0.7 is left out while another is a member.
C3_Witness ==
    /\ FallbackReturned
    /\ \E s \in Named("High Risk Customers") :
          /\ Len(result[s].customers) >= 2
          /\ \E i \in 1..N : customers[i].riskScore = 700
                             /\ customers[i].id \notin IdSet(result[s])

\* C4: for a non-empty input the result starts with the High Value segment,
\* holds the Young Professionals and the High Risk segment exactly when some
\* customer passes that segment's filter, has 1 to 3 segments, no segment with
\* an empty member list, and no mean with a zero divisor.
C4_SegmentsPresentIffNonEmpty ==
    FallbackReturned =>
        /\ N > 0
        /\ Len(result) \in 1..3
        /\ Named("High Value Customers") = {1}
        /\ Cardinality(Named("Young Professionals")) =
             IF \E i \in 1..N : /\ customers[i].accountAge < 36
                                /\ customers[i].annualIncome > 40000
                                /\ customers[i].annualIncome < 100000
             THEN 1 ELSE 0
        /\ Cardinality(Named("High Risk Customers")) =
             IF \E i \in 1..N : customers[i].riskScore > 700 THEN 1 ELSE 0
        /\ Len(result) = Cardinality(Named("High Value Customers"))
                         + Cardinality(Named("Young Professionals"))
                         + Cardinality(Named("High Risk Customers"))
        /\ \A s \in 1..Len(result) :
              /\ Len(result[s].customers) > 0
              /\ result[s].characteristics.avgBalance.den > 0
              /\ result[s].characteristics.avgIncome.den > 0
              /\ result[s].characteristics.avgRiskScore.den > 0
              /\ result[s].characteristics.avgCLV.den > 0

\* C4 witness: both optional segments are omitted.
C4_Witness ==
    /\ FallbackReturned
    /\ N >= 2
    /\ Len(result) = 1

\* C5: performCustomerSegmentation on an empty list returns the empty list
\* with no call to the AI endpoint and without entering the fallback.
C5_EmptyListReturnsEmpty ==
    (op = SegmentationOp /\ N = 0 /\ pc # "ready") =>
        /\ pc = "returned"
        /\ result = <<>>
        /\ aiCalls = 0
        /\ aiOutcome = "none"
        /\ ~fallbackUsed

\* C5 witness: the call on the empty list has returned.
C5_Witness ==
    /\ op = SegmentationOp
    /\ N = 0
    /\ pc = "returned"
    /\ result = <<>>

\* C6: when the AI call throws, performCustomerSegmentation returns
\* fallbackSegmentation of the whole input list (which, for more than 50
\* customers, is not that of the 50 put in the prompt), the per-customer list
\* operations return the empty list, and no exception reaches the caller.
C6_ThrowFallsBack ==
    (aiOutcome = "threw") =>
        /\ pc = "returned"
        /\ aiCalls = 1
        /\ IF op = SegmentationOp
           THEN /\ result = fallbackSegmentation(customers)
                /\ 5 * result[1].characteristics.size >= N
                /\ N > PromptLimit =>
                     result # fallbackSegmentation(slice(customers, PromptLimit))
           ELSE op \in {InsightsOp, RecommendationsOp} => result = <<>>

\* C6 witness: the call threw for a list longer than the prompt's 50.
C6_Witness ==
    /\ op = SegmentationOp
    /\ aiOutcome = "threw"
    /\ pc = "returned"
    /\ N > PromptLimit
    /\ Len(prompt) = PromptLimit

\* C7: the High Value member list is ordered by descending balance with equal
\* balances in input order, and among equal balances at the boundary the
\* customers earlier in the input are the ones selected.
C7_StableDescendingOrder ==
    FallbackReturned =>
        LET hv == result[1].customers
            bal(id) == customers[PosOf(id)].accountBalance
        IN  /\ \A a, b \in 1..Len(hv) :
                  a < b => \/ bal(hv[a]) > bal(hv[b])
                           \/ bal(hv[a]) = bal(hv[b]) /\ PosOf(hv[a]) < PosOf(hv[b])
            /\ \A i, j \in 1..N :
                  ( /\ customers[i].id \in IdSet(result[1])
                    /\ customers[j].id \notin IdSet(result[1])
                    /\ customers[i].accountBalance = customers[j].accountBalance )
                    => i < j

\* C7 witness: two members of equal balance, and a customer of that balance
\* left out at the boundary.
C7_Witness ==
    /\ FallbackReturned
    /\ LET hv == result[1].customers
       IN  /\ Len(hv) >= 2
           /\ customers[PosOf(hv[Len(hv)])].accountBalance =
                customers[PosOf(hv[Len(hv) - 1])].accountBalance
           /\ \E j \in 1..N :
                 /\ customers[j].id \notin IdSet(result[1])
                 /\ customers[j].accountBalance =
                      customers[PosOf(hv[Len(hv)])].accountBalance

\* C8: every returned segment reports size equal to the length of its member
\* id list, names only input customers, and its four averages are the sums of
\* the fields over exactly its members divided by the member count.
C8_CharacteristicsAreMemberMeans ==
    FallbackReturned =>
        \A s \in 1..Len(result) :
            LET seg == result[s]
                ch == seg.characteristics
                k == Len(seg.customers)
            IN  /\ ch.size = k
                /\ IdSet(seg) \subseteq InputIds
                /\ ch.avgBalance = [num |-> SumOver(seg.customers, "accountBalance"), den |-> k]
                /\ ch.avgIncome = [num |-> SumOver(seg.customers, "annualIncome"), den |-> k]
                /\ ch.avgRiskScore = [num |-> SumOver(seg.customers, "riskScore"), den |-> k]
                /\ ch.avgCLV = [num |-> SumOver(seg.customers, "customerLifetimeValue"), den |-> k]

\* C8 witness: three segments, each smaller than the input, of different sizes.
C8_Witness ==
    /\ FallbackReturned
    /\ Len(result) = 3
    /\ result[1].characteristics.size < result[3].characteristics.size
    /\ result[3].characteristics.size < N
    /\ result[2].characteristics.avgBalance.num > 0

(***************************************************************************)
(* DataSeeder's closed-form generators, as functions of their arguments    *)
(* and of the numerator k of the Math.random() draw k / RandomSteps.       *)
(***************************************************************************)

\* Math.max(300, Math.min(850, x)) without the upper limit
clampScoreLowerOnly(x) == Max(300, x)

\* Math.max(300, Math.min(850, x))
clampScore(x) == Max(300, Min(850, x))

\* generateCreditScore(income):
\*   baseScore = Math.min(850, 580 + income / 1000)
\*   variation = (Math.random() - 0.5) * 100
\*   return Math.max(300, Math.min(850, Math.floor(baseScore + variation)))
\* In thousandths baseScore is min(850000, 580000 + income), and variation is
\* (2k - D) * 50000 / D for the draw k / D; \div rounds down, as Math.floor.
generateCreditScore(income, k) ==
    LET D == RandomSteps
        baseScore1000 == Min(850 * 1000, 580 * 1000 + income)
        variation1000D == (2 * k - D) * 50 * 1000
    IN  clampScore((baseScore1000 * D + variation1000D) \div (1000 * D))

\* Math.max(0, Math.min(1, x)) without the lower limit
clampUnitUpperOnly(x) ==
    IF x.num > x.den THEN [num |-> x.den, den |-> x.den] ELSE x

\* Math.max(0, Math.min(1, x)) for the fraction x (x.den > 0)
clampUnit(x) ==
    LET atMostOne == IF x.num > x.den THEN [num |-> x.den, den |-> x.den] ELSE x
    IN  IF atMostOne.num < 0 THEN [num |-> 0, den |-> x.den] ELSE atMostOne

\* balance < 1000 ? 0.3 : balance < 5000 ? 0.1 : 0, in tenths
balanceRisk10(balance) == IF balance < 1000 THEN 3 ELSE IF balance < 5000 THEN 1 ELSE 0

\* transactionCount < 5 ? 0.2 : transactionCount > 100 ? 0.1 : 0, in tenths
activityRisk10(transactionCount) ==
    IF transactionCount < 5 THEN 2 ELSE IF transactionCount > 100 THEN 1 ELSE 0

\* totalRisk = creditRisk * 0.6 + balanceRisk * 0.3 + activityRisk * 0.1 with
\* creditRisk = (850 - creditScore) / 550, as a multiple of 1/5500:
\* 0.6/550 is 6/5500, and a tenth times 0.3 (times 0.1) is 165/5500 (55/5500).
totalRisk5500(creditScore, balance, transactionCount) ==
    (850 - creditScore) * 6
        + balanceRisk10(balance) * 165
        + activityRisk10(transactionCount) * 55

\* calculateRiskScore(creditScore, balance, transactionCount):
\*   return Math.max(0, Math.min(1, totalRisk + (Math.random() - 0.5) * 0.2))
\* The noise for the draw k / D is (2k - D) / (10 D), that is
\* (2k - D) * 550 / (5500 D).
calculateRiskScore(creditScore, balance, transactionCount, k) ==
    LET D == RandomSteps
    IN  clampUnit([ num |-> totalRisk5500(creditScore, balance, transactionCount) * D
                            + (2 * k - D) * 550,
                    den |-> 5500 * D ])

(***************************************************************************)
(* Exact arithmetic for products that exceed the checker's integer range:  *)
(* a natural number is a sequence of base-1000 digits, least significant   *)
(* first.  The generators below are evaluated over the rationals; the      *)
(* claims about them are bounds that Math.floor and Math.max preserve.     *)
(***************************************************************************)
Abs(x) == IF x < 0 THEN 0 - x ELSE x

RECURSIVE bigOfNat(_)
bigOfNat(n) == IF n = 0 THEN <<>> ELSE <<n % 1000>> \o bigOfNat(n \div 1000)

\* b * m + carry, for 0 <= m <= 2,000,000
RECURSIVE bigMulCarry(_, _, _)
bigMulCarry(b, m, carry) ==
    IF b = <<>>
    THEN bigOfNat(carry)
    ELSE LET t == Head(b) * m + carry
         IN  <<t % 1000>> \o bigMulCarry(Tail(b), m, t \div 1000)

\* quotient and remainder of b by d, for 0 < d <= 2,000,000
RECURSIVE bigDivRem(_, _)
bigDivRem(b, d) ==
    IF b = <<>>
    THEN [q |-> <<>>, r |-> 0]
    ELSE LET hi == bigDivRem(Tail(b), d)
             cur == hi.r * 1000 + Head(b)
         IN  [q |-> <<cur \div d>> \o hi.q, r |-> cur % d]

RECURSIVE bigToInt(_)
bigToInt(b) == IF b = <<>> THEN 0 ELSE Head(b) + 1000 * bigToInt(Tail(b))

\* |f1| * |f2| * ... for a sequence of integers
RECURSIVE bigProduct(_)
bigProduct(factors) ==
    IF factors = <<>>
    THEN <<1>>
    ELSE bigMulCarry(bigProduct(Tail(factors)), Abs(Head(factors)), 0)

\* b divided by d1, then by d2, ...: the floor of b / (d1 * d2 * ...) and
\* whether the division left no remainder
RECURSIVE bigQuotient(_, _)
bigQuotient(b, divisors) ==
    IF divisors = <<>>
    THEN [q |-> b, exact |-> TRUE]
    ELSE LET first == bigDivRem(b, Head(divisors))
             rest == bigQuotient(first.q, Tail(divisors))
         IN  [q |-> rest.q, exact |-> rest.exact /\ first.r = 0]

\* Math.floor(f1 * f2 * ... / (d1 * d2 * ...)) for integer factors of either
\* sign and positive divisors
floorOfQuotient(factors, divisors) ==
    LET negatives == Cardinality({i \in DOMAIN factors : factors[i] < 0})
        quotient == bigQuotient(bigProduct(factors), divisors)
        magnitude == bigToInt(quotient.q)
    IN  IF negatives % 2 = 0
        THEN magnitude
        ELSE 0 - (magnitude + (IF quotient.exact THEN 0 ELSE 1))

\* generateAnnualIncome(): the bracket is chosen by the draw b / BracketSteps
\* (rand < 0.2, < 0.5, < 0.8, < 0.95, else) and the amount by the draw
\* k / RandomSteps.
generateAnnualIncome(b, k) ==
    LET B == BracketSteps
        D == RandomSteps
    IN  IF 5 * b < B THEN ((k * 30000) \div D) + 20000
        ELSE IF 2 * b < B THEN ((k * 40000) \div D) + 50000
        ELSE IF 5 * b < 4 * B THEN ((k * 60000) \div D) + 90000
        ELSE IF 20 * b < 19 * B THEN ((k * 100000) \div D) + 150000
        ELSE ((k * 250000) \div D) + 250000

\* Math.max(100, x) with the floor at zero instead
clampBalanceAtZero(x) == Max(0, x)

\* Math.max(100, x)
clampBalance(x) == Max(100, x)

\* generateAccountBalance(income, creditScore):
\*   baseBalance = income * 0.1 * (income / 100000) * (creditScore / 850)
\*   variation = (Math.random() - 0.5) * baseBalance * 0.5
\*   return Math.max(100, Math.floor(baseBalance + variation))
\* For the draw k / D, baseBalance + variation is
\* income * income * creditScore * (3 D + 2 k) / (1000 * 1000 * 850 * 4 D).
generateAccountBalance(income, creditScore, k) ==
    LET D == RandomSteps
    IN  clampBalance(floorOfQuotient(<<income, income, creditScore, 3 * D + 2 * k>>,
                                     <<1000, 1000, 850, 4 * D>>))

\* monthlyRevenue = (balance * 0.001) + (income * 0.0001), in ten-thousandths
monthlyRevenue10000(balance, income) == 10 * balance + income

\* accountAge / 12 without the limit of 5, in twelfths
retentionMultiplierUncapped12(accountAge) == accountAge

\* retentionMultiplier = Math.min(5, accountAge / 12), in twelfths
retentionMultiplier12(accountAge) == Min(60, accountAge)

\* calculateCLV(balance, income, accountAge):
\*   return Math.floor(monthlyRevenue * 12 * retentionMultiplier
\*                     * (2 + Math.random() * 3))
\* For the draw k / D the last factor is (2 D + 3 k) / D, and the 12 cancels
\* the twelfths of the retention multiplier.
calculateCLV(balance, income, accountAge, k) ==
    LET D == RandomSteps
    IN  floorOfQuotient(<<monthlyRevenue10000(balance, income),
                          retentionMultiplier12(accountAge),
                          2 * D + 3 * k>>,
                        <<10000, D>>)

\* Arguments the generators are applied to: the values seedCustomerData
\* produces (incomes 20,000..499,999, credit scores 300..850, balances from
\* 100, 10..209 transactions, account ages 1..120) and values outside those
\* ranges.
IncomeInputs == {-400000, 0, 20000, 219999, 270000, 499999, 1000000}
CreditScoreInputs == {-1000, 0, 299, 300, 575, 850, 851, 2000}
BalanceInputs == {-5000, 0, 100, 999, 1000, 4999, 5000, 100000}
TransactionCountInputs == {0, 4, 5, 10, 100, 101, 209}
AccountAgeInputs == {-12, 0, 1, 12, 59, 60, 61, 120}

RandomDraws == 0..(RandomSteps - 1)

FnInit ==
    /\ fnName = "none"
    /\ fnArgs \in [ income : IncomeInputs,
                    creditScore : CreditScoreInputs,
                    balance : BalanceInputs,
                    transactionCount : {0},
                    accountAge : {0} ]
               \cup
                  [ income : {0},
                    creditScore : CreditScoreInputs,
                    balance : BalanceInputs,
                    transactionCount : TransactionCountInputs,
                    accountAge : {0} ]
               \cup
                  [ income : IncomeInputs,
                    creditScore : {0},
                    balance : BalanceInputs,
                    transactionCount : {0},
                    accountAge : AccountAgeInputs ]
    /\ fnRand = 0
    /\ fnOut = 0

MLIdle ==
    /\ op = "none"
    /\ customers = <<>>
    /\ pc = "idle"
    /\ aiCalls = 0
    /\ prompt = <<>>
    /\ aiOutcome = "none"
    /\ aiReply = NoReply
    /\ fallbackUsed = FALSE
    /\ result = <<>>

GenerateCreditScore ==
    /\ fnName = "none"
    /\ \E k \in RandomDraws :
          /\ fnRand' = k
          /\ fnOut' = generateCreditScore(fnArgs.income, k)
    /\ fnName' = "generateCreditScore"
    /\ UNCHANGED <<fnArgs, mlVars, riskVars>>

CalculateRiskScore ==
    /\ fnName = "none"
    /\ \E k \in RandomDraws :
          /\ fnRand' = k
          /\ fnOut' = calculateRiskScore(fnArgs.creditScore, fnArgs.balance,
                                         fnArgs.transactionCount, k)
    /\ fnName' = "calculateRiskScore"
    /\ UNCHANGED <<fnArgs, mlVars, riskVars>>

GenerateAccountBalance ==
    /\ fnName = "none"
    /\ \E k \in RandomDraws :
          /\ fnRand' = k
          /\ fnOut' = generateAccountBalance(fnArgs.income, fnArgs.creditScore, k)
    /\ fnName' = "generateAccountBalance"
    /\ UNCHANGED <<fnArgs, mlVars, riskVars>>

CalculateCLV ==
    /\ fnName = "none"
    /\ \E k \in RandomDraws :
          /\ fnRand' = k
          /\ fnOut' = calculateCLV(fnArgs.balance, fnArgs.income, fnArgs.accountAge, k)
    /\ fnName' = "calculateCLV"
    /\ UNCHANGED <<fnArgs, mlVars, riskVars>>

\* seedCustomerData's loop body, the three financial fields of one customer:
\*   annualIncome = this.generateAnnualIncome()
\*   creditScore = this.generateCreditScore(annualIncome)
\*   accountBalance = this.generateAccountBalance(annualIncome, creditScore)
SeedCustomerFinancials ==
    /\ fnName = "none"
    /\ fnArgs = NoArgs
    /\ \E b \in 0..(BracketSteps - 1), k1 \in RandomDraws, k2 \in RandomDraws,
          k3 \in RandomDraws :
          LET annualIncome == generateAnnualIncome(b, k1)
              creditScore == generateCreditScore(annualIncome, k2)
              accountBalance == generateAccountBalance(annualIncome, creditScore, k3)
          IN  /\ fnRand' = k3
              /\ fnOut' = [ annualIncome |-> annualIncome,
                            creditScore |-> creditScore,
                            accountBalance |-> accountBalance ]
    /\ fnName' = "seedCustomerData"
    /\ UNCHANGED <<fnArgs, mlVars, riskVars>>

SeederNext ==
    \/ GenerateCreditScore
    \/ CalculateRiskScore
    \/ GenerateAccountBalance
    \/ CalculateCLV
    \/ SeedCustomerFinancials

SeederInit == FnInit /\ MLIdle /\ RiskIdle

SeederSpec == SeederInit /\ [][SeederNext]_vars

\* C9: calculateRiskScore returns a value within [0,1] for every creditScore,
\* balance and transactionCount (negative and zero balances, credit scores
\* outside [300,850] included) and every noise draw.
C9_RiskScoreInUnitInterval ==
    fnName = "calculateRiskScore" =>
        /\ fnOut.den > 0
        /\ 0 <= fnOut.num
        /\ fnOut.num <= fnOut.den

\* C9 witness: a blend below 0 (credit score above 850, lowest noise) was
\* clamped to 0, for a negative balance.
C9_Witness ==
    /\ fnName = "calculateRiskScore"
    /\ fnArgs.creditScore > 850
    /\ fnArgs.balance < 0
    /\ fnRand = 0
    /\ fnOut.num = 0

\* C10: generateCreditScore returns an integer within [300, 850] for every
\* income (0 and the largest generated income, 499,999, included) and every
\* noise draw.
C10_CreditScoreInRange ==
    fnName = "generateCreditScore" =>
        /\ fnOut \in Int
        /\ 300 <= fnOut
        /\ fnOut <= 850

\* C10 witness: for the largest generated income the base of 850 plus positive
\* noise was limited to 850.
C10_Witness ==
    /\ fnName = "generateCreditScore"
    /\ fnArgs.income = 499999
    /\ 2 * fnRand > RandomSteps
    /\ fnOut = 850

\* C11: calculateCLV returns a non-negative value whenever balance, income and
\* accountAge are non-negative, for every multiplier draw; the retention
\* multiplier min(5, accountAge / 12) never exceeds 5, so the result never
\* exceeds monthlyRevenue * 12 * 5 * 5.
C11_CLVNonNegativeAndRetentionCapped ==
    fnName = "calculateCLV" =>
        /\ retentionMultiplier12(fnArgs.accountAge) <= 5 * 12
        /\ (fnArgs.balance >= 0 /\ fnArgs.income >= 0 /\ fnArgs.accountAge >= 0) =>
              /\ fnOut >= 0
              /\ fnOut <= floorOfQuotient(
                              <<monthlyRevenue10000(fnArgs.balance, fnArgs.income),
                                12 * 5 * 5>>, <<10000>>)

C11_Witness ==
    /\ fnName = "calculateCLV"
    /\ fnArgs.balance > 0 /\ fnArgs.income > 0 /\ fnArgs.accountAge > 60
    /\ fnRand > 0
    /\ fnOut > 0

\* C12: generateAccountBalance never returns a value below 100, for every
\* income, credit score and noise draw; so every customer seedCustomerData
\* builds has accountBalance >= 100.
C12_BalanceAtLeastHundred ==
    /\ fnName = "generateAccountBalance" => fnOut >= 100
    /\ fnName = "seedCustomerData" => fnOut.accountBalance >= 100

C12_Witness ==
    /\ fnName = "generateAccountBalance"
    /\ fnArgs.income > 0 /\ fnArgs.creditScore < 0
    /\ fnOut = 100

(***************************************************************************)
(* try / catch.  Every remote call of the application is made inside the   *)
(* try block of a function.  A catch block logs the exception; the ones of *)
(* DataSeeder throw it again, to the function that awaits them.            *)
(***************************************************************************)

\* The function that awaits fn ("none": fn is a handler of a page or its
\* mount effect, or its catch block never throws)
Caller(fn) ==
    IF fn \in {"seedCustomerData", "seedCustomerSegments"}
    THEN "seedSampleData" ELSE "none"

\* Every catch block ends with `throw error`
RethrowsEverywhere(fn) == TRUE

\* catch (error) { console.error(...); throw error }
Rethrows(fn) == fn \in {"seedCustomerData", "seedCustomerSegments"}

\* The handlers that an exception thrown in the try block of fn escapes from
unwinds(fn) ==
    IF ~Rethrows(fn) THEN {}
    ELSE IF Caller(fn) = "none" THEN {fn}
    ELSE IF ~Rethrows(Caller(fn)) THEN {}
    ELSE {Caller(fn)}

(***************************************************************************)
(* The Risk Assessment page (src/src/pages/RiskAssessment.tsx) over the    *)
(* hosted tables customers and riskAssessments.  A handler runs from one   *)
(* await to the next in one step; a remote call returns or fails in the    *)
(* step that resumes the handler.  The two list calls of loadData are      *)
(* answered by the server one by one and the load settles later, so loads  *)
(* that overlap may settle in either order.                                *)
(***************************************************************************)
RiskPage == "RiskAssessment"

AnalysisLimit == 20          \* highRiskCustomers.slice(0, 20)
RiskFilterScore == 600       \* c.riskScore > 0.6, in thousandths
RiskFilterBalance == 1000    \* c.accountBalance < 1000
AssessmentListLimit == 100   \* riskAssessments.list({ ..., limit: 100 })
CustomerListLimit == 1000    \* customers.list({ limit: 1000 })
ExpiryDays == 30             \* expiresDate: Date.now() + 30 days
ResolveShown == 5            \* highRiskAssessments.slice(0, 5)

MaxFaults == 1               \* failures and unusual answers in one behaviour
MaxClicks == 1               \* button presses in one behaviour
MaxLoads == 1                \* Refresh is pressed with fewer loads than this in flight

\* Customers on both sides of the two limits of the filter
RiskProfiles ==
    << [riskScore |-> 600, accountBalance |-> 1000],
       [riskScore |-> 601, accountBalance |-> 1000],
       [riskScore |-> 600, accountBalance |-> 999],
       [riskScore |-> 400, accountBalance |-> 999],
       [riskScore |-> 800, accountBalance |-> 500] >>

RiskCustomer(id, profile) ==
    [ id |-> id,
      riskScore |-> RiskProfiles[profile].riskScore,
      accountBalance |-> RiskProfiles[profile].accountBalance ]

\* Small tables: every table of these sizes over the profiles around the
\* limits (the first four).
SmallRiskLens == {0, 1, 2}

SmallRiskTables ==
    UNION { { [i \in 1..n |-> RiskCustomer(i, f[i])] :
                f \in [1..n -> 1..(Len(RiskProfiles) - 1)] } : n \in SmallRiskLens }

\* Tables with the limit of 20 reached, passed by one, and passed among
\* customers that do not qualify: customer i has profile (a * i) mod 5 + 2
\* (a = 0: all qualify by their score).
LongRiskLens == {AnalysisLimit, AnalysisLimit + 1, 2 * AnalysisLimit - 4}

LongRiskTables ==
    { [i \in 1..n |-> RiskCustomer(i, ((a * i + 1) % Len(RiskProfiles)) + 1)] :
        n \in LongRiskLens, a \in 0..1 }

\* c.riskScore > 0.6 || c.accountBalance < 1000
isAtRisk(c) == c.riskScore > RiskFilterScore \/ c.accountBalance < RiskFilterBalance

\* customers.filter(...) without the loop header's .slice(0, 20)
selectAllAtRisk(cs) == SelectSeq(cs, isAtRisk)

\* customers.filter(...) and, in the loop header, .slice(0, 20)
selectForAnalysis(cs) == slice(SelectSeq(cs, isAtRisk), AnalysisLimit)

\* const customerData = { id, accountBalance, ..., riskScore, customerLifetimeValue: 0, ... }
customerData(c) ==
    [ id |-> c.id, accountBalance |-> c.accountBalance, riskScore |-> c.riskScore,
      customerLifetimeValue |-> 0 ]

\* riskAssessments.list({ orderBy: { assessedDate: 'desc' }, limit: 100 }):
\* assessedDate grows with every create, so the order is the reverse of the
\* creation order.
listAssessments ==
    slice([i \in 1..Len(dbAssessments) |-> dbAssessments[Len(dbAssessments) + 1 - i]],
          AssessmentListLimit)

\* customers.list({ limit: 1000 })
listCustomers == slice(dbCustomers, CustomerListLimit)

\* assessmentData.map(assessment => ({ ...assessment, customer: customer ? {...} : undefined }))
enrich(assessmentData, custData) ==
    [ i \in 1..Len(assessmentData) |->
        LET found == { j \in 1..Len(custData) : custData[j].id = assessmentData[i].customerId }
        IN  assessmentData[i] @@
            [ hasCustomer |-> found # {},
              customerBalance |-> IF found = {} THEN 0
                                  ELSE custData[CHOOSE j \in found : \A m \in found : j <= m]
                                           .accountBalance ] ]

\* A remote call in flight, answered with rows, or answered with an error
Sent == [st |-> "sent", rows |-> <<>>]
Answered(rows) == [st |-> "ok", rows |-> rows]
Failed == [st |-> "err", rows |-> <<>>]

\* loadData up to its await: Promise.all([riskAssessments.list, customers.list])
NewLoad(owner) == [owner |-> owner, assessments |-> Sent, customers |-> Sent]

RemoveAt(q, i) == SubSeq(q, 1, i - 1) \o SubSeq(q, i + 1, Len(q))

\* Assessments that earlier runs have left in the table: none, or one still
\* active (made from an answer of the endpoint) and one resolved (made from
\* the default bucket), for customers 1 and 2.
PriorAssessments ==
    { <<>>,
      << [ id |-> 1, customerId |-> 1, riskScore |-> 650, riskLevel |-> "critical",
           factors |-> <<"factor1", "factor2">>,
           recommendations |-> <<"recommendation1">>,
           status |-> "active", assessedDate |-> 0, expiresDate |-> ExpiryDays ],
         [ id |-> 2, customerId |-> 2, riskScore |-> 800, riskLevel |-> "high",
           factors |-> <<"Unable to assess risk factors">>,
           recommendations |-> <<"Manual review recommended">>,
           status |-> "resolved", assessedDate |-> 1, expiresDate |-> 1 + ExpiryDays ] >> }

\* The mounted page before its first load settles, over a small table; or the
\* loaded page over a long table, where every call answers as usual.
RiskInit ==
    /\ AppIdle
    /\ page = RiskPage
    /\ pageAssessments = <<>>
    /\ analyzing = FALSE
    /\ run = NoRun
    /\ upd = NoUpdate
    /\ \/ /\ dbCustomers \in SmallRiskTables
          /\ dbAssessments \in PriorAssessments
          /\ clock = Len(dbAssessments)
          /\ pageCustomers = <<>>
          /\ loading = TRUE
          /\ loads = <<NewLoad("mount")>>
          /\ faults = MaxFaults
          /\ clicks = 0
       \/ /\ dbCustomers \in LongRiskTables
          /\ dbAssessments = <<>>
          /\ clock = 0
          /\ pageCustomers = dbCustomers
          /\ loading = FALSE
          /\ loads = <<>>
          /\ faults = 0
          /\ clicks = MaxClicks - 1

\* A remote call of the page fails: one of `faults` is used up.
fails == faults > 0 /\ faults' = faults - 1

\* <Button onClick={loadData}>Refresh</Button>; the page renders its buttons
\* once loading is false
ClickRefresh ==
    /\ page = RiskPage
    /\ ~loading
    /\ clicks < MaxClicks
    /\ Len(loads) < MaxLoads
    /\ clicks' = clicks + 1
    /\ loads' = Append(loads, NewLoad("refresh"))
    /\ UNCHANGED <<appVars, escaped>>
    /\ UNCHANGED <<page, dbCustomers, dbAssessments, pageCustomers, pageAssessments,
                   loading, analyzing, run, upd, clock, faults, mlVars, fnVars>>

\* The server answers one of the two list calls of a load.
ServerLists ==
    \E i \in 1..Len(loads), which \in {"assessments", "customers"} :
       /\ loads[i][which].st = "sent"
       /\ \/ /\ loads' = [loads EXCEPT ![i][which] =
                            Answered(IF which = "assessments"
                                     THEN listAssessments ELSE listCustomers)]
             /\ UNCHANGED faults
          \/ /\ fails
             /\ loads' = [loads EXCEPT ![i][which] = Failed]
       /\ UNCHANGED <<appVars, escaped>>
       /\ UNCHANGED <<page, dbCustomers, dbAssessments, pageCustomers, pageAssessments,
                      loading, analyzing, run, upd, clock, clicks, mlVars, fnVars>>

\* A run whose flag is reset in the try block, before the reload is awaited:
\* nothing is left to do after it
afterLoadNoFinally(owner) ==
    /\ UNCHANGED <<analyzing, run>>
    /\ IF owner = "update" THEN upd' = NoUpdate ELSE UNCHANGED upd

\* What follows the await of loadData in its caller: runRiskAnalysis reaches
\* its finally, updateAssessmentStatus returns.
afterLoad(owner) ==
    /\ IF owner = "run"
       THEN analyzing' = FALSE /\ run' = [run EXCEPT !.pc = "idle"]
       ELSE UNCHANGED <<analyzing, run>>
    /\ IF owner = "update" THEN upd' = NoUpdate ELSE UNCHANGED upd

\* Promise.all settles: with both lists the try block ends (setAssessments,
\* setCustomers); with a rejected list the catch block logs.  finally:
\* setLoading(false).
LoadSettles ==
    \E i \in 1..Len(loads) :
       LET load == loads[i]
       IN  /\ \/ /\ load.assessments.st = "ok" /\ load.customers.st = "ok"
                 /\ pageAssessments' = enrich(load.assessments.rows, load.customers.rows)
                 /\ pageCustomers' = load.customers.rows
                 /\ UNCHANGED escaped
              \/ /\ load.assessments.st = "err" \/ load.customers.st = "err"
                 /\ UNCHANGED <<pageAssessments, pageCustomers>>
                 /\ escaped' = escaped \cup unwinds("loadData")
           /\ loading' = FALSE
           /\ loads' = RemoveAt(loads, i)
           /\ afterLoad(load.owner)
           /\ UNCHANGED appVars
           /\ UNCHANGED <<page, dbCustomers, dbAssessments, clock, faults, clicks,
                          mlVars, fnVars>>

\* <Button onClick={runRiskAnalysis} disabled={analyzing || customers.length === 0}>
\* runRiskAnalysis up to await blink.auth.me()
ClickRun ==
    /\ page = RiskPage
    /\ ~loading /\ ~analyzing /\ Len(pageCustomers) > 0
    /\ clicks < MaxClicks
    /\ clicks' = clicks + 1
    /\ analyzing' = TRUE
    /\ run' = [NoRun EXCEPT !.pc = "authMe", !.customers = pageCustomers]
    /\ UNCHANGED <<appVars, escaped>>
    /\ UNCHANGED <<page, dbCustomers, dbAssessments, pageCustomers, pageAssessments,
                   loading, loads, upd, clock, faults, mlVars, fnVars>>

\* The loop going on while a reload it does not wait for is in flight
nextCustomerAndReload(r) ==
    /\ loads' = Append(loads, NewLoad("run"))
    /\ run' = IF r.k < Len(r.highRiskCustomers)
              THEN [r EXCEPT !.pc = "transactions", !.k = r.k + 1]
              ELSE [r EXCEPT !.pc = "loadData"]

\* A loop that a failure ends: the reload follows at once
abortToReload(r) ==
    /\ run' = [r EXCEPT !.pc = "loadData"]
    /\ loads' = Append(loads, NewLoad("run"))

\* The loop goes to its next customer (up to the await of transactions.list)
\* or, past the last one, to await loadData().
nextCustomer(r) ==
    IF r.k < Len(r.highRiskCustomers)
    THEN /\ run' = [r EXCEPT !.pc = "transactions", !.k = r.k + 1]
         /\ UNCHANGED loads
    ELSE /\ run' = [r EXCEPT !.pc = "loadData"]
         /\ loads' = Append(loads, NewLoad("run"))

AuthReturns ==
    /\ run.pc = "authMe"
    /\ nextCustomer([run EXCEPT !.highRiskCustomers = selectForAnalysis(run.customers)])
    /\ UNCHANGED <<appVars, escaped>>
    /\ UNCHANGED <<page, dbCustomers, dbAssessments, pageCustomers, pageAssessments,
                   loading, analyzing, upd, clock, faults, clicks, mlVars, fnVars>>

\* auth.me() rejects: the outer catch logs, finally: setAnalyzing(false)
AuthFails ==
    /\ run.pc = "authMe"
    /\ fails
    /\ run' = [run EXCEPT !.pc = "idle"]
    /\ analyzing' = FALSE
    /\ escaped' = escaped \cup unwinds("runRiskAnalysis")
    /\ UNCHANGED appVars
    /\ UNCHANGED <<page, dbCustomers, dbAssessments, pageCustomers, pageAssessments,
                   loading, loads, upd, clock, clicks, mlVars, fnVars>>

\* transactions.list returns: customerData is built and
\* MLEngine.assessCustomerRisk(customerData, transactions) is entered
TransactionsReturn ==
    /\ run.pc = "transactions"
    /\ run' = [run EXCEPT !.pc = "assess"]
    /\ op' = RiskOp
    /\ customers' = <<customerData(run.highRiskCustomers[run.k])>>
    /\ pc' = "ready"
    /\ aiCalls' = 0
    /\ prompt' = <<>>
    /\ aiOutcome' = "none"
    /\ aiReply' = NoReply
    /\ fallbackUsed' = FALSE
    /\ result' = <<>>
    /\ UNCHANGED <<appVars, escaped>>
    /\ UNCHANGED <<page, dbCustomers, dbAssessments, pageCustomers, pageAssessments,
                   loading, analyzing, loads, upd, clock, faults, clicks, fnVars>>

\* transactions.list rejects: catch (customerError) logs, the loop goes on
TransactionsFail ==
    /\ run.pc = "transactions"
    /\ fails
    /\ nextCustomer([run EXCEPT !.skipped = Append(@, run.highRiskCustomers[run.k].id)])
    /\ escaped' = escaped \cup unwinds("runRiskAnalysis")
    /\ UNCHANGED appVars
    /\ UNCHANGED <<page, dbCustomers, dbAssessments, pageCustomers, pageAssessments,
                   loading, analyzing, upd, clock, clicks, mlVars, fnVars>>

\* assessCustomerRisk has returned: riskAssessments.create({...}) is issued
\* with assessedDate: new Date()
AssessmentReturned ==
    /\ run.pc = "assess"
    /\ op = RiskOp /\ pc = "returned"
    /\ run' = [run EXCEPT !.pc = "create",
                          !.riskAnalysis = result,
                          !.assessedDate = clock,
                          !.sent = Append(@, customers[1].id),
                          !.aiCalls = Append(@, aiCalls)]
    /\ clock' = clock + 1
    /\ UNCHANGED <<appVars, escaped>>
    /\ UNCHANGED <<page, dbCustomers, dbAssessments, pageCustomers, pageAssessments,
                   loading, analyzing, loads, upd, faults, clicks, mlVars, fnVars>>

\* A row that keeps the riskScore the customer had
assessmentRecordOfPrior(r, id) ==
    [ id |-> id,
      customerId |-> r.highRiskCustomers[r.k].id,
      riskScore |-> r.highRiskCustomers[r.k].riskScore,
      riskLevel |-> r.riskAnalysis.riskLevel,
      factors |-> r.riskAnalysis.factors,
      recommendations |-> r.riskAnalysis.recommendations,
      status |-> "active",
      assessedDate |-> r.assessedDate,
      expiresDate |-> r.assessedDate + ExpiryDays ]

\* The row riskAssessments.create is called with
assessmentRecord(r, id) ==
    [ id |-> id,
      customerId |-> r.highRiskCustomers[r.k].id,
      riskScore |-> r.riskAnalysis.riskScore,
      riskLevel |-> r.riskAnalysis.riskLevel,
      factors |-> r.riskAnalysis.factors,
      recommendations |-> r.riskAnalysis.recommendations,
      status |-> "active",
      assessedDate |-> r.assessedDate,
      expiresDate |-> r.assessedDate + ExpiryDays ]

\* riskAssessments.create returns: customers.update(customer.id, { riskScore })
\* is issued
CreateReturns ==
    /\ run.pc = "create"
    /\ dbAssessments' = Append(dbAssessments,
                               assessmentRecord(run, Len(dbAssessments) + 1))
    /\ run' = [run EXCEPT !.pc = "update"]
    /\ UNCHANGED <<appVars, escaped>>
    /\ UNCHANGED <<page, dbCustomers, pageCustomers, pageAssessments, loading,
                   analyzing, loads, upd, clock, faults, clicks, mlVars, fnVars>>

CreateFails ==
    /\ run.pc = "create"
    /\ fails
    /\ nextCustomer(run)
    /\ escaped' = escaped \cup unwinds("runRiskAnalysis")
    /\ UNCHANGED appVars
    /\ UNCHANGED <<page, dbCustomers, dbAssessments, pageCustomers, pageAssessments,
                   loading, analyzing, upd, clock, clicks, mlVars, fnVars>>

\* customers.update(id, { riskScore }) on the table
updateRiskScore(table, id, riskScore) ==
    [ i \in 1..Len(table) |->
        IF table[i].id = id THEN [table[i] EXCEPT !.riskScore = riskScore]
        ELSE table[i] ]

UpdateReturns ==
    /\ run.pc = "update"
    /\ dbCustomers' = updateRiskScore(dbCustomers, run.highRiskCustomers[run.k].id,
                                      run.riskAnalysis.riskScore)
    /\ nextCustomer(run)
    /\ UNCHANGED <<appVars, escaped>>
    /\ UNCHANGED <<page, dbAssessments, pageCustomers, pageAssessments, loading,
                   analyzing, upd, clock, faults, clicks, mlVars, fnVars>>

UpdateFails ==
    /\ run.pc = "update"
    /\ fails
    /\ nextCustomer(run)
    /\ escaped' = escaped \cup unwinds("runRiskAnalysis")
    /\ UNCHANGED appVars
    /\ UNCHANGED <<page, dbCustomers, dbAssessments, pageCustomers, pageAssessments,
                   loading, analyzing, upd, clock, clicks, mlVars, fnVars>>

\* const highRiskAssessments = assessments.filter(a => a.riskLevel === 'high'
\*                                                  || a.riskLevel === 'critical')
isHighRiskAssessment(a) == a.riskLevel = "high" \/ a.riskLevel = "critical"

ResolveStatusClosed == "closed"

\* The status the Resolve button passes to updateAssessmentStatus
ResolveStatus == "resolved"

\* highRiskAssessments.slice(0, 5).map(... onClick={() =>
\*     updateAssessmentStatus(assessment.id, 'resolved')}), rendered when
\* customers and assessments are not empty; updateAssessmentStatus up to the
\* await of riskAssessments.update
ClickResolve ==
    /\ page = RiskPage
    /\ ~loading /\ Len(pageCustomers) > 0
    /\ upd.pc = "idle"
    /\ clicks < MaxClicks
    /\ clicks' = clicks + 1
    /\ \E a \in { slice(SelectSeq(pageAssessments, isHighRiskAssessment), ResolveShown)[i] :
                    i \in 1..Min(ResolveShown,
                                 Len(SelectSeq(pageAssessments, isHighRiskAssessment))) } :
          upd' = [pc |-> "update", assessmentId |-> a.id, status |-> ResolveStatus]
    /\ UNCHANGED <<appVars, escaped>>
    /\ UNCHANGED <<page, dbCustomers, dbAssessments, pageCustomers, pageAssessments,
                   loading, analyzing, run, loads, clock, faults, mlVars, fnVars>>

\* An update that rewrites the score along with the status
updateStatusAndScore(table, id, status) ==
    [ i \in 1..Len(table) |->
        IF table[i].id = id
        THEN [table[i] EXCEPT !.status = status, !.riskScore = 0]
        ELSE table[i] ]

\* riskAssessments.update(assessmentId, { status }) on the table
updateStatus(table, id, status) ==
    [ i \in 1..Len(table) |->
        IF table[i].id = id THEN [table[i] EXCEPT !.status = status] ELSE table[i] ]

\* riskAssessments.update returns: await loadData()
StatusUpdateReturns ==
    /\ upd.pc = "update"
    /\ dbAssessments' = updateStatus(dbAssessments, upd.assessmentId, upd.status)
    /\ upd' = [upd EXCEPT !.pc = "loadData"]
    /\ loads' = Append(loads, NewLoad("update"))
    /\ UNCHANGED <<appVars, escaped>>
    /\ UNCHANGED <<page, dbCustomers, pageCustomers, pageAssessments, loading,
                   analyzing, run, clock, faults, clicks, mlVars, fnVars>>

\* riskAssessments.update rejects: the catch block logs
StatusUpdateFails ==
    /\ upd.pc = "update"
    /\ fails
    /\ upd' = NoUpdate
    /\ escaped' = escaped \cup unwinds("updateAssessmentStatus")
    /\ UNCHANGED appVars
    /\ UNCHANGED <<page, dbCustomers, dbAssessments, pageCustomers, pageAssessments,
                   loading, analyzing, run, loads, clock, clicks, mlVars, fnVars>>

RiskPageNext ==
    \/ ClickRefresh
    \/ ServerLists
    \/ LoadSettles
    \/ ClickRun
    \/ AuthReturns
    \/ AuthFails
    \/ TransactionsReturn
    \/ TransactionsFail
    \/ AssessmentReturned
    \/ CreateReturns
    \/ CreateFails
    \/ UpdateReturns
    \/ UpdateFails
    \/ ClickResolve
    \/ StatusUpdateReturns
    \/ StatusUpdateFails

\* The page with the engine it calls, and the engine's operations alone
RiskSpecInit ==
    \/ RiskInit /\ MLIdle /\ FnIdle
    \/ MLInit /\ FnIdle /\ RiskIdle

RiskNext == RiskPageNext \/ MLNext

RiskSpec == RiskSpecInit /\ [][RiskNext]_vars

(***************************************************************************)
(* Properties of the Risk Assessment page, stated over the tables, the     *)
(* list the run closed over and the calls it has made.                     *)
(***************************************************************************)
Qualifies(c) == c.riskScore > 600 \/ c.accountBalance < 1000

\* Ids of the first 20 qualifying customers of the list, in list order
FirstTwentyQualifying(cs) ==
    { cs[i].id : i \in { i \in 1..Len(cs) :
                           /\ Qualifies(cs[i])
                           /\ Cardinality({ j \in 1..(i - 1) : Qualifies(cs[j]) }) < 20 } }

SeqIds(q) == { q[i] : i \in 1..Len(q) }

PositionIn(cs, id) == CHOOSE i \in 1..Len(cs) : cs[i].id = id

\* C13: one run sends at most 20 customers to the AI, each one of the first
\* 20 (in the order of the loaded list) that have riskScore > 0.6 or
\* accountBalance < 1000, in that order and once each; when the loop has ended
\* these are all of them but those whose transaction read failed; and a step
\* of the run creates an assessment or changes a riskScore only for a customer
\* of that set.
C13_RunAssessesFirstTwenty ==
    /\ [](/\ Len(run.sent) <= 20
          /\ SeqIds(run.sent) \subseteq FirstTwentyQualifying(run.customers)
          /\ \A i, j \in 1..Len(run.sent) :
                i < j => PositionIn(run.customers, run.sent[i])
                            < PositionIn(run.customers, run.sent[j])
          /\ run.pc = "assess" => customers[1].id \in FirstTwentyQualifying(run.customers)
          /\ run.pc = "loadData" =>
                SeqIds(run.sent) \cup SeqIds(run.skipped)
                    = FirstTwentyQualifying(run.customers))
    /\ [][/\ \A i \in (Len(dbAssessments) + 1)..Len(dbAssessments') :
                dbAssessments'[i].customerId \in FirstTwentyQualifying(run.customers)
          /\ \A i \in 1..Len(dbCustomers) :
                dbCustomers'[i].riskScore # dbCustomers[i].riskScore =>
                    dbCustomers[i].id \in FirstTwentyQualifying(run.customers)]_vars

\* C13 witness: the loop has ended with 20 assessments created while a
\* twenty-first customer qualifies.
C13_Witness ==
    /\ run.pc = "loadData"
    /\ Len(run.sent) = 20
    /\ Len(dbAssessments) = 20
    /\ \E i \in 1..Len(run.customers) :
          Qualifies(run.customers[i]) /\ run.customers[i].id \notin SeqIds(run.sent)

\* Remote calls of the run that have been issued and not answered
RunOutstanding ==
    (IF run.pc \in {"authMe", "transactions", "create", "update"} THEN 1 ELSE 0)
    + (IF run.pc = "assess" /\ pc = "awaitAI" THEN 1 ELSE 0)
    + Cardinality({ <<i, which>> \in (1..Len(loads)) \X {"assessments", "customers"} :
                      loads[i].owner = "run" /\ loads[i][which].st = "sent" })

\* C14 as stated: at most one remote call of the run is outstanding at any
\* time.
C14_OneCallOutstanding == RunOutstanding <= 1

\* C14, amended: while the loop over the customers runs, at most one remote
\* call of the run is outstanding and it is a call for the current customer;
\* only the reload that ends the run has two (its two list calls, issued
\* together).
C14_LoopIsSequential ==
    /\ run.pc \in {"authMe", "transactions", "assess", "create", "update"} =>
          /\ RunOutstanding <= 1
          /\ \A i \in 1..Len(loads) : loads[i].owner # "run"
    /\ run.pc = "assess" => customers[1].id = run.highRiskCustomers[run.k].id
    /\ run.pc = "loadData" => RunOutstanding <= 2
    /\ run.pc = "idle" => RunOutstanding = 0

\* C14 witness: the second customer's first call is outstanding, alone.
C14_Witness ==
    /\ run.pc = "transactions"
    /\ run.k = 2
    /\ RunOutstanding = 1

\* C15: an invocation of an MLEngine operation calls the AI endpoint at most
\* once, also when the call throws, and a run has made exactly one call for
\* each customer it has sent to the AI, no customer twice.
C15_OneAICallPerInvocation ==
    /\ aiCalls <= 1
    /\ aiOutcome # "none" => aiCalls = 1
    /\ Len(run.aiCalls) = Len(run.sent)
    /\ \A i \in 1..Len(run.aiCalls) : run.aiCalls[i] = 1
    /\ Cardinality(SeqIds(run.sent)) = Len(run.sent)

\* C15 witness: a run is at its second customer or later and the call for
\* this customer threw.
C15_Witness ==
    /\ page = RiskPage
    /\ run.pc = "create"
    /\ Len(run.aiCalls) >= 2
    /\ aiOutcome = "threw"

\* C17: when the AI call of assessCustomerRisk throws, the result is the
\* customer's riskScore unchanged, the level 'high' above 0.7, 'medium' above
\* 0.4 and up to 0.7, else 'low', one placeholder factor and one placeholder
\* recommendation; the run goes on to create the assessment with these values.
C17_ThrowGivesDefaultBucket ==
    (op = RiskOp /\ aiOutcome = "threw") =>
        LET score == customers[1].riskScore
            bucket == [ riskScore |-> score,
                        riskLevel |-> IF score > 700 THEN "high"
                                      ELSE IF score > 400 /\ score <= 700 THEN "medium"
                                      ELSE "low",
                        factors |-> <<"Unable to assess risk factors">>,
                        recommendations |-> <<"Manual review recommended">> ]
        IN  /\ pc = "returned"
            /\ result = bucket
            /\ result.riskLevel # "critical"
            /\ run.pc \in {"create", "update"} => run.riskAnalysis = bucket
            /\ run.pc = "update" =>
                  LET created == dbAssessments[Len(dbAssessments)]
                  IN  /\ created.customerId = customers[1].id
                      /\ created.riskScore = score
                      /\ created.riskLevel = bucket.riskLevel
                      /\ created.factors = bucket.factors
                      /\ created.recommendations = bucket.recommendations

\* C17 witness: the call threw for a customer of the run with a score of 0.4
\* and its assessment, level 'low', has been created.
C17_Witness ==
    /\ op = RiskOp /\ aiOutcome = "threw"
    /\ run.pc = "update"
    /\ customers[1].riskScore = 400
    /\ dbAssessments[Len(dbAssessments)].riskLevel = "low"

\* C18: a step never removes an assessment and changes no field of an
\* existing one but status; a new assessment appears only in the step in
\* which the create of runRiskAnalysis returns.
C18_OnlyStatusChanges ==
    [][/\ Len(dbAssessments') >= Len(dbAssessments)
       /\ \A i \in 1..Len(dbAssessments) :
             [dbAssessments'[i] EXCEPT !.status = "any"]
                 = [dbAssessments[i] EXCEPT !.status = "any"]
       /\ Len(dbAssessments') > Len(dbAssessments) =>
             /\ run.pc = "create" /\ run'.pc = "update"
             /\ Len(dbAssessments') = Len(dbAssessments) + 1]_vars

\* C18 witness: the status of the first assessment has been changed and the
\* reload that follows has settled; both assessments are still in the table.
C18_Witness ==
    /\ Len(dbAssessments) = 2
    /\ dbAssessments[1].status = "resolved"
    /\ dbAssessments[1].riskLevel = "critical"
    /\ upd.pc = "idle"
    /\ loads = <<>>

\* C19: every assessment's status is active, resolved or dismissed; a new
\* assessment has status active, and a status update in flight carries one
\* of the three.
C19_StatusInDomain ==
    /\ [](/\ \A i \in 1..Len(dbAssessments) :
                dbAssessments[i].status \in {"active", "resolved", "dismissed"}
          /\ upd.pc = "update" => upd.status \in {"active", "resolved", "dismissed"})
    /\ [][\A i \in (Len(dbAssessments) + 1)..Len(dbAssessments') :
             dbAssessments'[i].status = "active"]_vars

\* C19 witness: a status update has been written and its reload is awaited.
C19_Witness ==
    /\ upd.pc = "loadData"
    /\ \E i \in 1..Len(dbAssessments) :
          dbAssessments[i].id = upd.assessmentId /\ dbAssessments[i].status = "resolved"

(***************************************************************************)
(* The pages CustomerSegmentation (src/unnamed/part_001), CustomerProfiles *)
(* and AIInsights.  A page mounts with its load in flight and renders its  *)
(* buttons once `loading` is false; a handler runs from one await to the   *)
(* next, and one handler of the page runs at a time.  The rows of          *)
(* customerSegments keep what the model needs of segmentData: the id       *)
(* (its prefix and the Date.now() it was built with), the name, the        *)
(* aiGenerated flag of `criteria` and customerCount.                       *)
(***************************************************************************)
SegPage == "CustomerSegmentation"
ProfilesPage == "CustomerProfiles"
InsightsPage == "AIInsights"
AppPages == {SegPage, ProfilesPage, InsightsPage}

SeedCustomerCount == 50     \* DataSeeder.seedCustomerData(user.id, 50)
ProfilesListLimit == 500    \* customers.list({ ..., limit: 500 })
InsightListLimit == 50      \* aiInsights.list({ ..., limit: 50 })
DefaultIncome == 50000      \* c.annualIncome || 50000
DefaultRisk == 300          \* c.riskScore || 0.3, in thousandths

tables == <<dbCustomers, dbSegments, dbAssignments, dbInsights>>
lists == <<pageCustomers, pageSegments, pageInsights, mlResults>>
riskOnlyVars == <<dbAssessments, pageAssessments, analyzing, run, loads, upd>>

\* x || d on numbers: 0 is falsy
orElse(x, d) == IF x = 0 THEN d ELSE x

\* customers.map(c => ({ id: c.id, accountBalance: c.accountBalance || 0, ... }));
\* a row keeps its age in months in place of createdAt
segmentationData(cs) ==
    [ i \in 1..Len(cs) |->
        [ id |-> cs[i].id,
          accountBalance |-> orElse(cs[i].accountBalance, 0),
          annualIncome |-> orElse(cs[i].annualIncome, DefaultIncome),
          accountAge |-> cs[i].accountAge,
          riskScore |-> orElse(cs[i].riskScore, DefaultRisk),
          customerLifetimeValue |-> orElse(cs[i].customerLifetimeValue, 0) ] ]

\* The customers table: empty, one customer, or three of whom one is a young
\* professional and one is high risk
SegTables ==
    { <<>>,
      << CustomerOf(1, 0) >>,
      << CustomerOf(1, 2), CustomerOf(2, 12), [CustomerOf(3, 1) EXCEPT !.annualIncome = 0] >> }

\* const segments = [ ... ] of seedCustomerSegments: five rows, none of them
\* with aiGenerated in its criteria, customerCount: 0
seedSegments(now) ==
    [ i \in 1..5 |->
        [ id |-> << <<"seg_high_value", "seg_young_prof", "seg_digital_natives",
                      "seg_premium_savers", "seg_at_risk">>[i], now >>,
          segmentName |-> <<"High Value Customers", "Young Professionals",
                            "Digital Natives", "Premium Savers", "At-Risk Customers">>[i],
          aiGenerated |-> FALSE,
          customerCount |-> 0 ] ]

\* The customers of seedCustomerData's loop, with ids after those in the table
seedCustomers(count) ==
    [ i \in 1..count |-> CustomerOf(Len(dbCustomers) + i, i % NumProfiles) ]

\* What earlier segmentation runs have left in customerSegments and
\* customerSegmentAssignments: nothing, or the High Value segment of a run
\* of the rule-based fallback over customer 1
PriorSegmentations ==
    { [segments |-> <<>>, assignments |-> <<>>],
      [segments |-> << [ id |-> <<"seg_high_value", 0>>,
                         segmentName |-> "High Value Customers",
                         aiGenerated |-> TRUE,
                         customerCount |-> 1 ] >>,
       assignments |-> << [ id |-> 1, customerId |-> 1,
                            segmentId |-> <<"seg_high_value", 0>> ] >>] }

\* Insights that earlier runs have left in the table
PriorInsights ==
    { <<>>,
      << [id |-> 1, title |-> "insight1", status |-> "active"],
         [id |-> 2, title |-> "insight2", status |-> "dismissed"] >> }

\* Array.prototype.reverse: the order of  orderBy: { createdAt: 'desc' }
reverse(s) == [i \in 1..Len(s) |-> s[Len(s) + 1 - i]]

\* useEffect(() => { loadData() }, []): the page is mounted and its load is in
\* flight.
PagesInit ==
    /\ page \in AppPages
    /\ dbCustomers \in SegTables
    /\ \E prior \in PriorSegmentations :
          dbSegments = prior.segments /\ dbAssignments = prior.assignments
    /\ dbInsights \in PriorInsights
    /\ pageCustomers = <<>> /\ pageSegments = <<>> /\ pageInsights = <<>>
    /\ mlResults = <<>>
    /\ loading = TRUE
    /\ generating = FALSE
    /\ act = [NoAct EXCEPT !.name = "mount", !.pc = "load"]
    /\ atStart = NoLists
    /\ ended = NoEnd
    /\ escaped = {}
    /\ insightsLoading = FALSE
    /\ customerInsights = <<>>
    /\ insightsCall = NoInsightsCall
    /\ seed = NoSeed
    /\ clock = 1
    /\ faults = MaxFaults
    /\ clicks = 0
    /\ dbAssessments = <<>> /\ pageAssessments = <<>>
    /\ analyzing = FALSE
    /\ run = NoRun /\ loads = <<>> /\ upd = NoUpdate

\* The data lists of the page
pageLists ==
    [ customers |-> pageCustomers, segments |-> pageSegments,
      insights |-> pageInsights, mlResults |-> mlResults ]

\* The load function of a page
loadOf(p) ==
    CASE p = SegPage -> "loadData"
      [] p = ProfilesPage -> "loadCustomers"
      [] OTHER -> "loadInsights"

\* A handler whose flag is reset at the end of its try block only
handlerEndsInTry(outcome) ==
    /\ generating' = IF outcome = "completed" THEN FALSE ELSE generating
    /\ act' = NoAct
    /\ ended' = [name |-> act.name, outcome |-> outcome]

\* A handler is over.  finally { setGenerating(false) } (setSeeding(false))
handlerEnds(outcome) ==
    /\ generating' = FALSE
    /\ act' = NoAct
    /\ ended' = [name |-> act.name, outcome |-> outcome]

\* The list calls of the load return: setSegments / setCustomers / setInsights;
\* finally { setLoading(false) }; the handler that awaited the load ends.
ListsReturn ==
    /\ page \in AppPages
    /\ act.pc = "load"
    /\ CASE page = SegPage ->
              /\ pageSegments' = reverse(dbSegments)
              /\ pageCustomers' = slice(dbCustomers, CustomerListLimit)
              /\ UNCHANGED pageInsights
         [] page = ProfilesPage ->
              /\ pageCustomers' = slice(reverse(dbCustomers), ProfilesListLimit)
              /\ UNCHANGED <<pageSegments, pageInsights>>
         [] OTHER ->
              /\ pageInsights' = slice(reverse(dbInsights), InsightListLimit)
              /\ UNCHANGED <<pageSegments, pageCustomers>>
    /\ loading' = FALSE
    /\ handlerEnds("completed")
    /\ UNCHANGED <<page, tables, mlResults, atStart, escaped, clock, faults, clicks,
                   mlVars, fnVars, riskOnlyVars, profileVars, seed>>

\* A list call of the load rejects: its catch block logs;
\* finally { setLoading(false) }; the handler that awaited the load ends.
ListsFail ==
    /\ page \in AppPages
    /\ act.pc = "load"
    /\ fails
    /\ escaped' = escaped \cup unwinds(loadOf(page))
    /\ loading' = FALSE
    /\ handlerEnds("failed")
    /\ UNCHANGED <<page, tables, lists, atStart, clock, clicks,
                   mlVars, fnVars, riskOnlyVars, profileVars, seed>>

\* A handler starts: its click is counted and the lists it found are kept.
starts(a) ==
    /\ act.pc = "idle"
    /\ ~loading /\ ~generating
    /\ clicks < MaxClicks
    /\ clicks' = clicks + 1
    /\ atStart' = pageLists
    /\ ended' = NoEnd
    /\ act' = a

\* <Button onClick={generateAISegmentation} disabled={generating || customers.length === 0}>
\* (the second button is rendered with customers only, so the early return on
\* an empty `customers` is never taken): setGenerating(true), customerData is
\* built and MLEngine.performCustomerSegmentation(customerData) is entered.
ClickGenerateSegmentation ==
    /\ page = SegPage
    /\ Len(pageCustomers) > 0
    /\ starts([NoAct EXCEPT !.name = "generateAISegmentation", !.pc = "segmentation"])
    /\ generating' = TRUE
    /\ clock' = clock + 1
    /\ op' = SegmentationOp
    /\ customers' = segmentationData(pageCustomers)
    /\ pc' = "ready"
    /\ aiCalls' = 0
    /\ prompt' = <<>>
    /\ aiOutcome' = "none"
    /\ aiReply' = NoReply
    /\ fallbackUsed' = FALSE
    /\ result' = <<>>
    /\ UNCHANGED <<page, tables, lists, loading, escaped, faults, fnVars, riskOnlyVars>>
    /\ UNCHANGED <<profileVars, seed>>

\* performCustomerSegmentation has returned: setMlResults(results), up to
\* await blink.auth.me()
SegmentationReturned ==
    /\ act.pc = "segmentation"
    /\ op = SegmentationOp /\ pc = "returned"
    /\ mlResults' = result
    /\ act' = [act EXCEPT !.pc = "auth", !.results = result]
    /\ UNCHANGED <<page, tables, pageCustomers, pageSegments, pageInsights, loading,
                   generating, atStart, ended, escaped, clock, faults, clicks,
                   mlVars, fnVars, riskOnlyVars, profileVars, seed>>

\* A loop that is left after its first element
nextResultOnce(a, create) ==
    IF a.k < Min(1, Len(a.results))
    THEN [a EXCEPT !.pc = create, !.k = a.k + 1, !.j = 0]
    ELSE [a EXCEPT !.pc = "load", !.j = 0]

\* for (const result of results): the next result (up to the await of
\* customerSegments.create / aiInsights.create) or, past the last one,
\* await loadData()
nextResult(a, create) ==
    IF a.k < Len(a.results)
    THEN [a EXCEPT !.pc = create, !.k = a.k + 1, !.j = 0]
    ELSE [a EXCEPT !.pc = "load", !.j = 0]

\* blink.auth.me() returns to the handler that awaits it
UserReturns ==
    /\ act.pc = "auth"
    /\ act' = CASE act.name = "generateAISegmentation" -> nextResult(act, "createSegment")
                [] act.name = "generateNewInsights" -> nextResult(act, "createInsight")
                [] OTHER -> [act EXCEPT !.pc = "createCustomers"]
    /\ UNCHANGED <<page, tables, lists, loading, generating, atStart, ended, escaped,
                   clock, faults, clicks, mlVars, fnVars, riskOnlyVars, profileVars, seed>>

\* A row whose customerCount is left at zero
segmentDataNoCount(r, now) ==
    [ id |-> <<r.segmentId, now>>,
      segmentName |-> r.segmentName,
      aiGenerated |-> TRUE,
      customerCount |-> 0 ]

\* The row that customerSegments.create(segmentData) is given for a result
segmentData(r, now) ==
    [ id |-> <<r.segmentId, now>>,
      segmentName |-> r.segmentName,
      aiGenerated |-> TRUE,
      customerCount |-> Len(r.customers) ]

\* A create that replaces the row with the same segmentName
upsertSegment(table, row) ==
    SelectSeq(table, LAMBDA x : x.segmentName # row.segmentName) \o <<row>>

\* customerSegments.create(row)
createSegment(table, row) == Append(table, row)

\* customerSegments.create returns: for (const customerId of result.customers),
\* up to the await of the first customerSegmentAssignments.create
CreateSegmentReturns ==
    /\ act.pc = "createSegment"
    /\ dbSegments' = createSegment(dbSegments, segmentData(act.results[act.k], clock))
    /\ act' = IF Len(act.results[act.k].customers) > 0
              THEN [act EXCEPT !.pc = "createAssignment", !.j = 1]
              ELSE nextResult(act, "createSegment")
    /\ UNCHANGED <<page, dbCustomers, dbAssignments, dbInsights, lists, loading,
                   generating, atStart, ended, escaped, clock, faults, clicks,
                   mlVars, fnVars, riskOnlyVars, profileVars, seed>>

\* customerSegmentAssignments.create returns: the next customer of the result
\* or the next result
CreateAssignmentReturns ==
    /\ act.pc = "createAssignment"
    /\ dbAssignments' =
          Append(dbAssignments,
                 [ id |-> Len(dbAssignments) + 1,
                   customerId |-> act.results[act.k].customers[act.j],
                   segmentId |-> <<act.results[act.k].segmentId, clock>> ])
    /\ act' = IF act.j < Len(act.results[act.k].customers)
              THEN [act EXCEPT !.j = act.j + 1]
              ELSE nextResult(act, "createSegment")
    /\ UNCHANGED <<page, dbCustomers, dbSegments, dbInsights, lists, loading,
                   generating, atStart, ended, escaped, clock, faults, clicks,
                   mlVars, fnVars, riskOnlyVars, profileVars, seed>>

\* The function whose try block holds the call that the handler awaits
tryOf(a) ==
    CASE a.pc \in {"createCustomers", "createTransactions", "createInteractions"} ->
            "seedCustomerData"
      [] a.pc = "seedSegments" -> "seedCustomerSegments"
      [] OTHER -> a.name

\* A remote call of a handler rejects: the catch blocks around it run, the
\* rest of the try block is skipped; finally { setGenerating(false) }
CallFails ==
    /\ page \in AppPages
    /\ act.pc \notin {"idle", "load", "segmentation"}
    /\ fails
    /\ escaped' = escaped \cup unwinds(tryOf(act))
    /\ handlerEnds("failed")
    /\ UNCHANGED <<page, tables, lists, loading, atStart, clock, clicks,
                   mlVars, fnVars, riskOnlyVars, profileVars, seed>>

SeedBatches == 2   \* the transaction batches of one seeding (10 to 50 in the code)

\* <Button onClick={seedSampleData} disabled={seeding}>: setSeeding(true), up
\* to await blink.auth.me()
ClickSeed ==
    /\ page = ProfilesPage
    /\ starts([NoAct EXCEPT !.name = "seedSampleData", !.pc = "auth"])
    /\ generating' = TRUE
    /\ clock' = clock + 1
    /\ UNCHANGED <<page, tables, lists, loading, escaped, faults,
                   mlVars, fnVars, riskOnlyVars, profileVars, seed>>

\* A createMany of DataSeeder returns.  seedCustomerData: customers, then the
\* transactions batch by batch, then customerInteractions; seedCustomerSegments:
\* the five segments; then await loadCustomers().
SeedCallReturns ==
    /\ act.name = "seedSampleData"
    /\ CASE act.pc = "createCustomers" ->
              /\ dbCustomers' = dbCustomers \o seedCustomers(SeedCustomerCount)
              /\ act' = [act EXCEPT !.pc = "createTransactions", !.k = 1]
              /\ UNCHANGED dbSegments
         [] act.pc = "createTransactions" ->
              /\ act' = IF act.k < SeedBatches
                        THEN [act EXCEPT !.k = act.k + 1]
                        ELSE [act EXCEPT !.pc = "createInteractions"]
              /\ UNCHANGED <<dbCustomers, dbSegments>>
         [] act.pc = "createInteractions" ->
              /\ act' = [act EXCEPT !.pc = "seedSegments"]
              /\ UNCHANGED <<dbCustomers, dbSegments>>
         [] act.pc = "seedSegments" ->
              /\ dbSegments' = dbSegments \o seedSegments(clock)
              /\ act' = [act EXCEPT !.pc = "load"]
              /\ UNCHANGED dbCustomers
         [] OTHER -> FALSE
    /\ UNCHANGED <<page, dbAssignments, dbInsights, lists, loading, generating,
                   atStart, ended, escaped, clock, faults, clicks,
                   mlVars, fnVars, riskOnlyVars, profileVars, seed>>

\* What blink.ai.generateText may resolve with: text that is no JSON, JSON that
\* is no array, or a JSON array of insights
InsightTexts ==
    { [json |-> FALSE, array |-> FALSE, items |-> <<>>],
      [json |-> TRUE, array |-> FALSE, items |-> <<>>],
      [json |-> TRUE, array |-> TRUE, items |-> <<>>],
      [json |-> TRUE, array |-> TRUE, items |-> <<"insight3", "insight4">>] }

\* <Button onClick={generateNewInsights} disabled={generating}>:
\* setGenerating(true), up to await blink.db.customers.list
ClickGenerateInsights ==
    /\ page = InsightsPage
    /\ starts([NoAct EXCEPT !.name = "generateNewInsights", !.pc = "listCustomers"])
    /\ generating' = TRUE
    /\ UNCHANGED <<page, tables, lists, loading, escaped, clock, faults,
                   mlVars, fnVars, riskOnlyVars, profileVars, seed>>

\* onClick={() => updateInsightStatus(insight.id, 'resolved' | 'dismissed')},
\* up to await blink.db.aiInsights.update
ClickInsightStatus ==
    \E i \in 1..Len(pageInsights), status \in {"resolved", "dismissed"} :
       /\ page = InsightsPage
       /\ starts([NoAct EXCEPT !.name = "updateInsightStatus", !.pc = "updateInsight",
                                !.k = pageInsights[i].id, !.results = <<status>>])
       /\ UNCHANGED <<page, tables, lists, loading, generating, escaped, clock, faults,
                      mlVars, fnVars, riskOnlyVars, profileVars, seed>>

\* aiInsights.update(insightId, { status })
updateInsight(table, id, status) ==
    [ i \in 1..Len(table) |->
        IF table[i].id = id THEN [table[i] EXCEPT !.status = status] ELSE table[i] ]

\* A remote call of AIInsights returns.  generateNewInsights: the two lists,
\* then generateText, whose text JSON.parse and the for...of loop take or
\* throw on (the inner catch logs), then one aiInsights.create per insight;
\* updateInsightStatus: the update; then await loadInsights().
InsightsCallReturns ==
    /\ page = InsightsPage
    /\ CASE act.pc = "listCustomers" ->
              /\ act' = [act EXCEPT !.pc = "listSegments"]
              /\ UNCHANGED <<dbInsights, generating, ended, escaped>>
         [] act.pc = "listSegments" ->
              /\ act' = [act EXCEPT !.pc = "generateText"]
              /\ UNCHANGED <<dbInsights, generating, ended, escaped>>
         [] act.pc = "generateText" ->
              \E text \in InsightTexts :
                 IF text.json /\ text.array
                 THEN /\ act' = [act EXCEPT !.pc = "auth", !.results = text.items]
                      /\ UNCHANGED <<dbInsights, generating, ended, escaped>>
                 ELSE /\ escaped' = escaped \cup unwinds(act.name)
                      /\ handlerEnds("failed")
                      /\ UNCHANGED dbInsights
         [] act.pc = "createInsight" ->
              /\ dbInsights' = Append(dbInsights,
                                      [ id |-> Len(dbInsights) + 1,
                                        title |-> act.results[act.k],
                                        status |-> "active" ])
              /\ act' = nextResult(act, "createInsight")
              /\ UNCHANGED <<generating, ended, escaped>>
         [] act.pc = "updateInsight" ->
              /\ dbInsights' = updateInsight(dbInsights, act.k, act.results[1])
              /\ act' = [act EXCEPT !.pc = "load"]
              /\ UNCHANGED <<generating, ended, escaped>>
         [] OTHER -> FALSE
    /\ UNCHANGED <<page, dbCustomers, dbSegments, dbAssignments, lists, loading,
                   atStart, clock, faults, clicks, mlVars, fnVars, riskOnlyVars>>
    /\ UNCHANGED <<profileVars, seed>>

\* onClick={() => { setSelectedCustomer(customer); generateCustomerInsights(customer) }}
\* disabled={insightsLoading}: setInsightsLoading(true), up to
\* await blink.db.transactions.list
ClickGenerateCustomerInsights ==
    \E i \in 1..Len(pageCustomers) :
       /\ page = ProfilesPage
       /\ ~loading /\ ~insightsLoading
       /\ clicks < MaxClicks
       /\ clicks' = clicks + 1
       /\ insightsLoading' = TRUE
       /\ insightsCall' = [pc |-> "transactions", customer |-> <<pageCustomers[i]>>]
       /\ UNCHANGED <<page, tables, lists, loading, generating, act, atStart, ended,
                      escaped, clock, faults, customerInsights,
                      mlVars, fnVars, riskOnlyVars, seed>>

\* transactions.list returns: customerData is built and
\* MLEngine.generateCustomerInsights(customer.id, customerData) is entered
CustomerTransactionsReturn ==
    /\ insightsCall.pc = "transactions"
    /\ insightsCall' = [insightsCall EXCEPT !.pc = "insights"]
    /\ op' = InsightsOp
    /\ customers' = insightsCall.customer
    /\ pc' = "ready"
    /\ aiCalls' = 0
    /\ prompt' = <<>>
    /\ aiOutcome' = "none"
    /\ aiReply' = NoReply
    /\ fallbackUsed' = FALSE
    /\ result' = <<>>
    /\ UNCHANGED <<page, tables, lists, loading, generating, act, atStart, ended,
                   escaped, clock, faults, clicks, insightsLoading, customerInsights,
                   fnVars, riskOnlyVars, seed>>

\* transactions.list rejects: catch (error) logs;
\* finally { setInsightsLoading(false) }
CustomerTransactionsFail ==
    /\ insightsCall.pc = "transactions"
    /\ fails
    /\ escaped' = escaped \cup unwinds("generateCustomerInsights")
    /\ insightsLoading' = FALSE
    /\ insightsCall' = NoInsightsCall
    /\ UNCHANGED <<page, tables, lists, loading, generating, act, atStart, ended,
                   clock, clicks, customerInsights, mlVars, fnVars, riskOnlyVars, seed>>

\* MLEngine.generateCustomerInsights has returned: setCustomerInsights(insights);
\* finally { setInsightsLoading(false) }
CustomerInsightsReturned ==
    /\ insightsCall.pc = "insights"
    /\ op = InsightsOp /\ pc = "returned"
    /\ customerInsights' = result
    /\ insightsLoading' = FALSE
    /\ insightsCall' = NoInsightsCall
    /\ UNCHANGED <<page, tables, lists, loading, generating, act, atStart, ended,
                   escaped, clock, faults, clicks, mlVars, fnVars, riskOnlyVars, seed>>

PagesNext ==
    \/ ListsReturn
    \/ ListsFail
    \/ ClickGenerateSegmentation
    \/ SegmentationReturned
    \/ UserReturns
    \/ CreateSegmentReturns
    \/ CreateAssignmentReturns
    \/ CallFails
    \/ ClickSeed
    \/ SeedCallReturns
    \/ ClickGenerateInsights
    \/ ClickInsightStatus
    \/ InsightsCallReturns
    \/ ClickGenerateCustomerInsights
    \/ CustomerTransactionsReturn
    \/ CustomerTransactionsFail
    \/ CustomerInsightsReturned

\* The three pages, with the MLEngine operation they enter
AppInit == PagesInit /\ MLIdle /\ FnIdle

AppNext == PagesNext \/ MLNext

AppSpec == AppInit /\ [][AppNext]_vars

\* The three pages, and the Risk Assessment page and the MLEngine operations
\* of RiskSpec
PagesSpecInit ==
    \/ PagesInit /\ MLIdle /\ FnIdle
    \/ RiskSpecInit

PagesSpecNext == PagesNext \/ RiskNext

PagesSpec == PagesSpecInit /\ [][PagesSpecNext]_vars

\* The rows of `old` are the first rows of `new`, unchanged
Extends(new, old) ==
    /\ Len(new) >= Len(old)
    /\ SubSeq(new, 1, Len(old)) = old

\* C20 as stated: customer segments are created by the segmentation action
\* alone, so every row of customerSegments is one that generateAISegmentation
\* wrote (its criteria say aiGenerated).
C20_SegmentsFromSegmentationOnly ==
    \A i \in 1..Len(dbSegments) : dbSegments[i].aiGenerated

\* C20, amended: no step updates or deletes a row of customerSegments or of
\* customerSegmentAssignments (the rows there stay, in place and unchanged,
\* and new rows come after them); segments are added by generateAISegmentation
\* and by the seeding of sample data, assignments by generateAISegmentation
\* alone.
C20_RowsOnlyAdded ==
    [][ /\ Extends(dbSegments', dbSegments)
        /\ Extends(dbAssignments', dbAssignments)
        /\ dbSegments' # dbSegments =>
              \/ act.name = "generateAISegmentation" /\ act.pc = "createSegment"
              \/ act.name = "seedSampleData" /\ act.pc = "seedSegments"
        /\ dbAssignments' # dbAssignments =>
              act.name = "generateAISegmentation" /\ act.pc = "createAssignment" ]_vars

\* A segmentation run over tables that an earlier run had filled has ended,
\* and its segments and assignments stand after the earlier ones.
C20_Witness ==
    /\ page = SegPage /\ act = NoAct /\ ended.outcome = "completed" /\ clicks > 0
    /\ Len(dbSegments) >= 3 /\ Len(dbAssignments) >= 3
    /\ dbSegments[1].id[2] = 0
    /\ dbSegments[2].id[2] > 0 /\ dbSegments[2].segmentName = dbSegments[1].segmentName
    /\ pageSegments = reverse(dbSegments)

\* C16 as stated: no exception escapes a page handler, and after a handler
\* has ended on a failure that was only logged the data lists of the page
\* (customers, segments, insights, ML results) are the ones it started with.
C16_FailureLeavesLists ==
    /\ escaped = {}
    /\ ended.outcome = "failed" => pageLists = atStart

\* A load of the Risk Assessment page settles with a rejected list call
RiskLoadFailed ==
    \E i \in 1..Len(loads) :
       /\ loads' = RemoveAt(loads, i)
       /\ "err" \in {loads[i].assessments.st, loads[i].customers.st}

\* updateAssessmentStatus ends in its catch block
RiskStatusUpdateFailed == upd # NoUpdate /\ upd' = NoUpdate /\ loads' = loads

\* C16, amended: no exception escapes a page handler.  After a load, a
\* seeding, an insight generation or a status update has ended on a failure
\* that was only logged, the customer, segment, assessment and insight lists
\* of the page are the ones it started with (one handler of these pages runs
\* at a time); after a failed AI segmentation the customer and segment lists
\* are, while the ML-result list may already hold the new results.  On the
\* Risk Assessment page the step in which a load or a status update fails
\* changes neither list.  (A risk analysis skips the customer whose call
\* failed and reloads both lists at its end.)
C16_FailuresAreCaught ==
    /\ [](/\ escaped = {}
          /\ ended.outcome = "failed" =>
                /\ pageCustomers = atStart.customers
                /\ pageSegments = atStart.segments
                /\ pageInsights = atStart.insights
                /\ ended.name # "generateAISegmentation" => mlResults = atStart.mlResults)
    /\ [][RiskLoadFailed \/ RiskStatusUpdateFailed =>
             UNCHANGED <<pageCustomers, pageAssessments>>]_vars

\* seedSampleData has ended in its catch block after seedCustomerData had
\* inserted its customers: the exception that DataSeeder threw again was
\* caught, and the page still lists the customers it listed before.
C16_Witness ==
    /\ ended = [name |-> "seedSampleData", outcome |-> "failed"]
    /\ Len(dbCustomers) >= SeedCustomerCount
    /\ dbSegments = <<>>
    /\ pageCustomers = atStart.customers
    /\ Len(pageCustomers) < Len(dbCustomers)
    /\ ~generating

\* C26: when generateObject resolves, assessCustomerRisk returns the
\* riskScore of the object clamped into [0, 1] (thousandths: 0..1000), a 0
\* included, and the customer's prior riskScore only when the object carries
\* no riskScore.
C26_AIRiskScoreIsClamped ==
    (op = RiskOp /\ pc = "returned" /\ aiOutcome = "resolved") =>
        result.riskScore = IF aiReply.hasRiskScore
                           THEN Max(0, Min(1000, aiReply.riskScore))
                           ELSE customers[1].riskScore

\* A call that the loop of runRiskAnalysis awaits for its customer rejects
LoopCallFailed ==
    /\ run.pc \in {"transactions", "create", "update"}
    /\ faults' < faults
    /\ run' # run

\* C24: when the transaction read, the assessment create or the customer
\* update of one customer fails, the loop goes on with the next selected
\* customer, or past the last one issues the final reload; so the reload is
\* only reached with every selected customer attempted, and it is issued.
C24_FailureDoesNotAbortBatch ==
    /\ [](run.pc = "loadData" =>
             /\ run.k = Len(run.highRiskCustomers)
             /\ \E i \in 1..Len(loads) : loads[i].owner = "run")
    /\ [][LoopCallFailed =>
             /\ run'.highRiskCustomers = run.highRiskCustomers
             /\ IF run.k < Len(run.highRiskCustomers)
                THEN run'.pc = "transactions" /\ run'.k = run.k + 1
                ELSE run'.pc = "loadData" /\ loads' = Append(loads, NewLoad("run"))]_vars

\* C24 witness: the run has ended; the transaction read of its first customer
\* had failed, its second customer was assessed, and the reload shows that
\* assessment.
C24_Witness ==
    /\ run.pc = "idle" /\ ~analyzing
    /\ Len(run.highRiskCustomers) >= 2
    /\ run.skipped = <<run.highRiskCustomers[1].id>>
    /\ run.highRiskCustomers[2].id \in SeqIds(run.sent)
    /\ \E i \in 1..Len(pageAssessments) :
          /\ pageAssessments[i].customerId = run.highRiskCustomers[2].id
          /\ pageAssessments[i].assessedDate = run.assessedDate

\* C25: a step changes the stored riskScore of a customer only as the update
\* of the run for its current customer, after the assessment of this
\* iteration was created (it is the last row of riskAssessments), and to the
\* riskScore of that assessment; nothing else of the row changes.  So a create
\* that fails leaves the riskScore as it was.
C25_ScoreFollowsAssessment ==
    [][\A i \in 1..Len(dbCustomers) :
          dbCustomers'[i] # dbCustomers[i] =>
             /\ run.pc = "update"
             /\ dbCustomers[i].id = run.highRiskCustomers[run.k].id
             /\ Len(dbAssessments) > 0
             /\ LET a == dbAssessments[Len(dbAssessments)]
                IN  /\ a.customerId = dbCustomers[i].id
                    /\ a.assessedDate = run.assessedDate
                    /\ dbCustomers'[i] = [dbCustomers[i] EXCEPT !.riskScore = a.riskScore]]_vars

\* C25 witness: the run has ended with the riskScore of one customer changed
\* to that of the assessment made for it, and that of another left as it was
\* because the create for it failed.
C25_Witness ==
    /\ run.pc = "idle" /\ ~analyzing /\ Len(run.highRiskCustomers) >= 2
    /\ \E i, j \in 1..Len(dbCustomers) :
          /\ dbCustomers[i].riskScore # run.customers[i].riskScore
          /\ \E n \in 1..Len(dbAssessments) :
                /\ dbAssessments[n].customerId = dbCustomers[i].id
                /\ dbAssessments[n].riskScore = dbCustomers[i].riskScore
          /\ dbCustomers[j].id \in SeqIds(run.sent)
          /\ \A n \in 1..Len(dbAssessments) :
                dbAssessments[n].customerId # dbCustomers[j].id
          /\ dbCustomers[j].riskScore = run.customers[j].riskScore

(***************************************************************************)
(* The Risk Assessment page when every remote call is answered: a call     *)
(* that is awaited eventually returns or throws, the user may or may not   *)
(* press a button.                                                         *)
(***************************************************************************)
RiskAnswers ==
    \/ ServerLists \/ LoadSettles
    \/ AuthReturns \/ AuthFails
    \/ TransactionsReturn \/ TransactionsFail
    \/ GenerateList \/ AIResolves \/ AIThrows
    \/ AssessmentReturned
    \/ CreateReturns \/ CreateFails
    \/ UpdateReturns \/ UpdateFails
    \/ StatusUpdateReturns \/ StatusUpdateFails

\* The loaded page over two customers that both qualify and the assessments
\* of an earlier run, where the user has just pressed Run AI
\* Analysis (runRiskAnalysis awaits auth.me()) or Refresh (a load is in
\* flight) and will press one more button.
RiskLiveInit ==
    /\ AppIdle /\ MLIdle /\ FnIdle
    /\ page = RiskPage
    /\ dbCustomers = <<RiskCustomer(1, 2), RiskCustomer(2, 5)>>
    /\ dbAssessments \in PriorAssessments \ {<<>>}
    /\ clock = Len(dbAssessments)
    /\ pageCustomers = listCustomers
    /\ pageAssessments = enrich(listAssessments, listCustomers)
    /\ loading = FALSE
    /\ upd = NoUpdate
    /\ faults = MaxFaults
    /\ clicks = MaxClicks - 1
    /\ \/ /\ Len(pageCustomers) > 0
          /\ analyzing = TRUE
          /\ run = [NoRun EXCEPT !.pc = "authMe", !.customers = pageCustomers]
          /\ loads = <<>>
       \/ /\ analyzing = FALSE
          /\ run = NoRun
          /\ loads = <<NewLoad("refresh")>>

RiskLiveNext == RiskPageNext \/ GenerateList \/ AIResolves \/ AIThrows

RiskLiveSpec == RiskLiveInit /\ [][RiskLiveNext]_vars /\ WF_vars(RiskAnswers)

\* The positions of runRiskAnalysis inside its loop over the customers
InLoop == {"transactions", "assess", "create", "update"}

\* C21: a press of a button while a run is in progress leaves the run and its
\* flag as they are; the loop is left only for the final reload, past the
\* last selected customer; and with every remote call answered a run that
\* has started ends, with `analyzing` false again.
C21_RunCannotBeAborted ==
    /\ [][(clicks' # clicks /\ run.pc # "idle") =>
             run' = run /\ analyzing' = analyzing]_vars
    /\ [][(run.pc \in InLoop /\ run'.pc \notin InLoop) =>
             run'.pc = "loadData" /\ run.k = Len(run.highRiskCustomers)]_vars
    /\ [](analyzing => <>(~analyzing /\ run.pc = "idle"))

\* C21 witness: Refresh was pressed while the run was in its loop, and the run
\* has gone on to its reload with every selected customer attempted.
C21_Witness ==
    /\ run.pc = "loadData" /\ analyzing
    /\ Len(run.highRiskCustomers) >= 1
    /\ run.k = Len(run.highRiskCustomers)
    /\ \E i \in 1..Len(loads) : loads[i].owner = "refresh"

\* No load, run or status update is in flight
RiskQuiet == loads = <<>> /\ run.pc = "idle" /\ upd.pc = "idle"

\* C29: a load is issued after the writes of its caller, and the tables are
\* written by nothing else; so when nothing is in flight and no call has
\* failed, the load issued last has returned the tables as they are, and
\* the displayed lists are those.
C29_LastIssuedLoadIsDisplayed ==
    (RiskQuiet /\ faults = MaxFaults) =>
        /\ pageCustomers = listCustomers
        /\ pageAssessments = enrich(listAssessments, listCustomers)

\* The handlers that set a busy flag of their page
FlaggedHandlers == {"generateAISegmentation", "generateNewInsights", "seedSampleData"}

createdInsights ==
    LET n == IF act.pc = "createInsight" THEN act.k - 1 ELSE Len(act.results)
    IN  SubSeq(dbInsights, Max(1, Len(dbInsights) - n + 1), Len(dbInsights))

\* C22: rows are added to aiInsights only by the create of generateNewInsights;
\* while it creates, and when it awaits its reload, the rows created so far
\* are the first parsed elements, in order, each with status 'active', and
\* the reload is awaited with all of them created; the displayed list changes
\* only when that reload returns; text that does not parse ends the handler
\* with the table and the displayed list as they were.
C22_InsightsFromParsedOutput ==
    /\ []((act.name = "generateNewInsights" /\ act.pc \in {"createInsight", "load"}) =>
            /\ Len(createdInsights) =
                  (IF act.pc = "load" THEN Len(act.results) ELSE act.k - 1)
            /\ \A i \in 1..Len(createdInsights) :
                  /\ createdInsights[i].title = act.results[i]
                  /\ createdInsights[i].status = "active")
    /\ [][Len(dbInsights') > Len(dbInsights) =>
             /\ act.name = "generateNewInsights" /\ act.pc = "createInsight"
             /\ Len(dbInsights') = Len(dbInsights) + 1]_vars
    /\ [][(act.name = "generateNewInsights" /\ pageInsights' # pageInsights) =>
             act.pc = "load"]_vars
    /\ [][(act.name = "generateNewInsights" /\ act.pc = "generateText"
               /\ act'.pc # "auth") =>
             /\ act' = NoAct
             /\ dbInsights' = dbInsights /\ pageInsights' = pageInsights]_vars

\* C22 witness: the text parsed to two elements, both insights are created
\* and the reload is awaited.
C22_Witness ==
    /\ act.name = "generateNewInsights" /\ act.pc = "load"
    /\ Len(act.results) = 2
    /\ Len(createdInsights) = 2

\* The customer ids of the assignment rows of a segment, in creation order
assignedTo(segmentId) ==
    LET rows == SelectSeq(dbAssignments, LAMBDA x : x.segmentId = segmentId)
    IN  [i \in 1..Len(rows) |-> rows[i].customerId]

\* generateAISegmentation is between its first create and the return of its
\* reload
Persisting ==
    /\ act.name = "generateAISegmentation"
    /\ act.pc \in {"createSegment", "createAssignment", "load"}

\* C28: an assignment row refers to a segment row that exists; while the
\* assignments of a result are created they are the first ids of its customer
\* list, in order; when the reload is awaited, and after a run that
\* completed, the assignments of every segment of the run (its id carries
\* the time of the run) are its customer list, one row per id, as many as
\* its customerCount; rows are never removed; and a
\* call that is rejected ends the handler with the tables and the displayed
\* lists as they were.
C28_SegmentsBeforeAssignments ==
    /\ [](\A i \in 1..Len(dbAssignments) :
            \E n \in 1..Len(dbSegments) : dbSegments[n].id = dbAssignments[i].segmentId)
    /\ []((Persisting /\ act.pc = "createAssignment") =>
            assignedTo(<<act.results[act.k].segmentId, clock>>) =
               SubSeq(act.results[act.k].customers, 1, act.j - 1))
    /\ []((Persisting /\ act.pc = "load") =>
            \A k \in 1..Len(act.results) :
               assignedTo(<<act.results[k].segmentId, clock>>) = act.results[k].customers)
    /\ [](((Persisting /\ act.pc = "load")
              \/ ended = [name |-> "generateAISegmentation", outcome |-> "completed"]) =>
            \A n \in 1..Len(dbSegments) :
               dbSegments[n].id[2] = clock =>
                  dbSegments[n].customerCount = Len(assignedTo(dbSegments[n].id)))
    /\ [][Extends(dbSegments', dbSegments) /\ Extends(dbAssignments', dbAssignments)]_vars
    /\ [][(Persisting /\ act.pc # "load" /\ act' = NoAct) =>
             /\ ended' = [name |-> "generateAISegmentation", outcome |-> "failed"]
             /\ dbSegments' = dbSegments /\ dbAssignments' = dbAssignments
             /\ pageSegments' = pageSegments /\ pageCustomers' = pageCustomers]_vars

\* C28 witness: a create of an assignment was rejected part-way through a
\* segment; its row and its first assignments are in the tables, and the
\* page shows the segments it showed before.
C28_Witness ==
    /\ ended = [name |-> "generateAISegmentation", outcome |-> "failed"]
    /\ act = NoAct
    /\ pageSegments = atStart.segments
    /\ \E n \in 1..Len(dbSegments) :
          /\ Len(assignedTo(dbSegments[n].id)) >= 1
          /\ Len(assignedTo(dbSegments[n].id)) < dbSegments[n].customerCount

(***************************************************************************)
(* DataSeeder.seedCustomerData(userId, count): the records are generated   *)
(* in one loop over the customers, then inserted table by table.  A        *)
(* customer keeps the fields the other records are derived from; its       *)
(* financial fields are the generators checked under SeederSpec.           *)
(***************************************************************************)
TransactionCountSpread == 200   \* Math.floor(Math.random() * 200) + 10
TransactionCountMin == 10
TransactionCap == 50            \* Math.min(count, 50)
TransactionBatchSize == 50      \* this.chunkArray(transactions, 50)
InteractionSpread == 5          \* Math.floor(Math.random() * 5) + 1

\* The arguments seedCustomerData is called with
SeedUsers == {"user1", "user2"}
SeedCounts == {0, 1, 2}

\* Math.floor(Math.random() * n) for the draw k / RandomSteps
floorOfRandom(k, n) == (k * n) \div RandomSteps

\* A loop that pushes `count` records, whatever the count
generateTransactionsUncapped(customerId, userId, count) ==
    [ i \in 1..count |->
        [ id |-> <<"txn", customerId, i - 1>>, userId |-> userId,
          customerId |-> customerId ] ]

\* for (let i = 0; i < Math.min(count, 50); i++) transactions.push({...})
generateTransactions(customerId, userId, count) ==
    [ i \in 1..Min(count, TransactionCap) |->
        [ id |-> <<"txn", customerId, i - 1>>, userId |-> userId,
          customerId |-> customerId ] ]

\* numInteractions = Math.floor(Math.random() * 5) + 1;
\* for (let i = 0; i < numInteractions; i++) interactions.push({...})
generateInteractions(customerId, userId, k) ==
    [ i \in 1..(floorOfRandom(k, InteractionSpread) + 1) |->
        [ id |-> <<"int", customerId, i - 1>>, userId |-> userId,
          customerId |-> customerId ] ]

\* Chunks of exactly chunkSize: what is left over is dropped
chunkArrayFullOnly(array, chunkSize) ==
    [ c \in 1..(Len(array) \div chunkSize) |->
        SubSeq(array, (c - 1) * chunkSize + 1, c * chunkSize) ]

\* for (let i = 0; i < array.length; i += chunkSize)
\*   chunks.push(array.slice(i, i + chunkSize))
chunkArray(array, chunkSize) ==
    [ c \in 1..((Len(array) + chunkSize - 1) \div chunkSize) |->
        SubSeq(array, (c - 1) * chunkSize + 1, Min(c * chunkSize, Len(array))) ]

\* seedCustomerData is entered; nothing else is in progress and a remote call
\* may fail.
SeedDataInit ==
    /\ MLIdle /\ FnIdle
    /\ dbSegments = <<>> /\ dbAssignments = <<>> /\ dbInsights = <<>>
    /\ pageSegments = <<>> /\ pageInsights = <<>> /\ mlResults = <<>>
    /\ generating = FALSE /\ act = NoAct /\ atStart = NoLists /\ ended = NoEnd
    /\ escaped = {}
    /\ insightsLoading = FALSE /\ customerInsights = <<>>
    /\ insightsCall = NoInsightsCall
    /\ page = "none"
    /\ dbCustomers = <<>> /\ dbAssessments = <<>>
    /\ pageCustomers = <<>> /\ pageAssessments = <<>>
    /\ loading = TRUE /\ analyzing = FALSE
    /\ run = NoRun /\ loads = <<>> /\ upd = NoUpdate
    /\ clock = 0 /\ clicks = 0
    /\ faults = MaxFaults
    /\ \E userId \in SeedUsers, count \in SeedCounts :
          seed = [NoSeed EXCEPT !.pc = "generate", !.userId = userId, !.count = count]

seedRest == <<mlVars, fnVars, page, dbCustomers, dbSegments, dbAssignments, dbInsights,
              lists, loading, generating, act, atStart, ended, escaped, clock, clicks,
              riskOnlyVars, profileVars>>

\* One pass of for (let i = 0; i < count; i++): the customer, its
\* transactions and its interactions are pushed
GenerateCustomer ==
    /\ seed.pc = "generate"
    /\ seed.i < seed.count
    /\ \E kt \in RandomDraws, ki \in RandomDraws :
          LET customerId == <<"cust", clock, seed.i>>
              transactionCount ==
                  floorOfRandom(kt, TransactionCountSpread) + TransactionCountMin
          IN  seed' = [seed EXCEPT
                 !.i = @ + 1,
                 !.customers = Append(@, [ id |-> customerId, userId |-> seed.userId,
                                           transactionCount |-> transactionCount ]),
                 !.transactions =
                     @ \o generateTransactions(customerId, seed.userId, transactionCount),
                 !.interactions = @ \o generateInteractions(customerId, seed.userId, ki)]
    /\ UNCHANGED <<seedRest, faults>>

\* The loop is over: up to await blink.db.customers.createMany(customers)
SeedLoopEnds ==
    /\ seed.pc = "generate"
    /\ seed.i = seed.count
    /\ seed' = [seed EXCEPT !.pc = "createCustomers"]
    /\ UNCHANGED <<seedRest, faults>>

\* A createMany of seedCustomerData returns, up to the next await
SeedInsertReturns ==
    /\ CASE seed.pc = "createCustomers" ->
              LET transactionBatches == chunkArray(seed.transactions, TransactionBatchSize)
              IN  seed' = [seed EXCEPT
                     !.calls = Append(@, [table |-> "customers", rows |-> seed.customers]),
                     !.transactionBatches = transactionBatches,
                     !.k = IF Len(transactionBatches) > 0 THEN 1 ELSE 0,
                     !.pc = IF Len(transactionBatches) > 0
                            THEN "createTransactions" ELSE "createInteractions"]
         [] seed.pc = "createTransactions" ->
              seed' = [seed EXCEPT
                 !.calls = Append(@, [ table |-> "transactions",
                                       rows |-> seed.transactionBatches[seed.k] ]),
                 !.k = IF seed.k < Len(seed.transactionBatches) THEN @ + 1 ELSE @,
                 !.pc = IF seed.k < Len(seed.transactionBatches)
                        THEN "createTransactions" ELSE "createInteractions"]
         [] seed.pc = "createInteractions" ->
              seed' = [seed EXCEPT
                 !.calls = Append(@, [ table |-> "customerInteractions",
                                       rows |-> seed.interactions ]),
                 !.pc = "returned"]
         [] OTHER -> FALSE
    /\ UNCHANGED <<seedRest, faults>>

\* A createMany rejects: catch (error) { console.error(...); throw error }
SeedInsertFails ==
    /\ seed.pc \in {"createCustomers", "createTransactions", "createInteractions"}
    /\ fails
    /\ seed' = [seed EXCEPT !.pc = "thrown"]
    /\ UNCHANGED seedRest

SeedDataNext ==
    \/ GenerateCustomer
    \/ SeedLoopEnds
    \/ SeedInsertReturns
    \/ SeedInsertFails

SeedDataSpec == SeedDataInit /\ [][SeedDataNext]_vars

\* The place of a table in the order of the inserts
tableRank(table) ==
    CASE table = "customers" -> 1
      [] table = "transactions" -> 2
      [] OTHER -> 3

RECURSIVE concat(_)
\* The rows of a list of createMany calls, one after the other
concat(calls) ==
    IF calls = <<>> THEN <<>> ELSE calls[1].rows \o concat(Tail(calls))

\* The createMany calls on one table that have returned
callsOn(table) == SelectSeq(seed.calls, LAMBDA c : c.table = table)

InsertPositions == {"createCustomers", "createTransactions", "createInteractions"}

\* C23: an insert is made with every record generated, and the generated
\* lists do not change afterwards; the inserts are made in the order
\* customers (once, all of them), transactions, customerInteractions (once,
\* all of them); every transactions batch has 1 to 50 rows, the batches
\* inserted so far are the first generated transactions in order, and they
\* are all of them when the interactions are inserted; a rejected insert
\* leaves the calls made so far as they are, is the last thing the function
\* does, and ends it by throwing.
C23_InsertOrderAndBatches ==
    /\ [](seed.pc \in InsertPositions \cup {"returned", "thrown"} =>
            seed.i = seed.count /\ Len(seed.customers) = seed.count)
    /\ [][seed.pc # "generate" =>
             /\ seed'.customers = seed.customers
             /\ seed'.transactions = seed.transactions
             /\ seed'.interactions = seed.interactions]_vars
    /\ [](\A a \in 1..Len(seed.calls), b \in 1..Len(seed.calls) :
            a < b => /\ tableRank(seed.calls[a].table) <= tableRank(seed.calls[b].table)
                     /\ seed.calls[b].table # "customers"
                     /\ seed.calls[a].table # "customerInteractions")
    /\ [](/\ concat(callsOn("customers")) \in {<<>>, seed.customers}
          /\ concat(callsOn("customerInteractions")) \in {<<>>, seed.interactions})
    /\ [](\A a \in 1..Len(seed.calls) :
            seed.calls[a].table = "transactions" =>
               Len(seed.calls[a].rows) \in 1..TransactionBatchSize)
    /\ [](Extends(seed.transactions, concat(callsOn("transactions"))))
    /\ [](seed.pc \in {"createInteractions", "returned"} =>
            /\ Len(callsOn("customers")) = 1
            /\ concat(callsOn("transactions")) = seed.transactions)
    /\ [](seed.pc = "returned" => Len(callsOn("customerInteractions")) = 1)
    /\ [][Extends(seed'.calls, seed.calls)]_vars
    /\ [][(seed.pc \in InsertPositions /\ seed'.calls = seed.calls /\ seed' # seed) =>
             seed'.pc = "thrown"]_vars
    /\ [][seed.pc = "thrown" => seed' = seed]_vars

\* C23 witness: the transactions went in as a full batch and a shorter one,
\* and the function has returned.
C23_Witness ==
    /\ seed.pc = "returned"
    /\ Len(callsOn("transactions")) = 2
    /\ Len(callsOn("transactions")[1].rows) = TransactionBatchSize
    /\ Len(callsOn("transactions")[2].rows) < TransactionBatchSize

\* The records of a list that carry the id of a customer
recordsOf(records, customerId) ==
    SelectSeq(records, LAMBDA r : r.customerId = customerId)

\* C30: after every pass of the loop, a generated customer has
\* min(transactionCount, 50) transactions and 1 to 5 interactions, and every
\* transaction and interaction carries the id of a generated customer and
\* the userId the function was called with.
C30_RecordsPerCustomer ==
    /\ \A n \in 1..Len(seed.customers) :
          LET c == seed.customers[n]
          IN  /\ Len(recordsOf(seed.transactions, c.id)) =
                    Min(c.transactionCount, TransactionCap)
              /\ Len(recordsOf(seed.interactions, c.id)) \in 1..InteractionSpread
              /\ c.userId = seed.userId
    /\ \A x \in 1..Len(seed.transactions) :
          /\ \E n \in 1..Len(seed.customers) :
                seed.customers[n].id = seed.transactions[x].customerId
          /\ seed.transactions[x].userId = seed.userId
    /\ \A x \in 1..Len(seed.interactions) :
          /\ \E n \in 1..Len(seed.customers) :
                seed.customers[n].id = seed.interactions[x].customerId
          /\ seed.interactions[x].userId = seed.userId

\* C30 witness: two customers are generated, one with more than 50
\* transactions counted and one with fewer, one with five interactions.
C30_Witness ==
    /\ seed.pc = "createCustomers"
    /\ Len(seed.customers) = 2
    /\ seed.customers[1].transactionCount > TransactionCap
    /\ seed.customers[2].transactionCount < TransactionCap
    /\ Len(recordsOf(seed.interactions, seed.customers[1].id)) = InteractionSpread

====
